---- MODULE Spec2Model ----
(***************************************************************************)
(* Claude Code Wrapped: the log-parsing and aggregation core.              *)
(*                                                                         *)
(*   live-log pipeline      ClaudeCodeParser (parseSessionFile,            *)
(*                          analyzeSession, aggregateStats) and            *)
(*                          RealWrappedGenerator (calculateDerivedStats,   *)
(*                          calculateStreaks)                              *)
(*   recorded pipeline      DataCollector (recordSession, loadSessions,    *)
(*                          getSessionsByYear), WrappedGenerator.generate  *)
(*                          and WrappedData (addSession, updateStats,      *)
(*                          calculateDerivedStats, calculateStreaks)       *)
(*                                                                         *)
(* JavaScript values are modelled as follows.                              *)
(*   - a plain object used as a histogram ({key: count}) is the sequence   *)
(*     of its <<key, count>> entries in Object.entries order: insertion    *)
(*     order for string keys, ascending order for integer keys;            *)
(*   - an array is a sequence, a Set is a set;                             *)
(*   - an ISO timestamp string "YYYY-MM-DDTHH:MM:SSZ" is the record        *)
(*     [date |-> <<y, m, d>>, sec |-> seconds into that UTC day]; a date   *)
(*     key "YYYY-MM-DD" is <<y, m, d>>, and string order on date keys is   *)
(*     the lexicographic order on the triples;                             *)
(*   - null / undefined is NullStr for a string, NoTime for a timestamp.   *)
(***************************************************************************)
EXTENDS Integers, Sequences, FiniteSets, TLC

VARIABLES
  \* ClaudeCodeParser.aggregateStats
  sessions,      \* the SessionStats list handed to aggregateStats
  aggregated,    \* <<>> before the call, <<result>> after it
  permuted,      \* <<result>> of aggregateStats on a permutation of sessions
  \* the derived-stats calculators
  stats,         \* RealWrappedGenerator: wrapped.stats (toWrappedFormat)
  wstats,        \* WrappedData: this.stats
  derivedDone,   \* which calculateDerivedStats have run: "Real", "Wrapped"
  insights,      \* <<>>, or <<what getInsights returned>>
  \* the recorded-sessions pipeline
  store,         \* data/sessions.json: [exists, sessions]
  recorded,      \* the sessionData arguments of the recordSession calls so far
  wrapped,       \* <<>>, or <<the WrappedData generate() returned>>
  lastCall,      \* the last call made and, for generate, its year and outcome
  \* ClaudeCodeParser on one session file
  fileLines,     \* the lines of the .jsonl file
  parsedEvents,  \* what parseSessionFile returned
  outcome,       \* what analyzeSession did: [threw, stats]
  pc,            \* "idle", "start", "parsed" or "analyzed"
  \* the read side of both pipelines
  projectsDir,   \* ~/.claude/projects: [exists, entries]
  yearFilter,    \* the argument of parseAllSessions; 0 when none is given
  found,         \* <<>>, or <<what findSessionFiles returned>>
  parsedAll,     \* <<>>, or <<what parseAllSessions did: [threw, error, sessions]>>
  loaded,        \* <<>>, or <<what loadSessions returned>>
  \* persisting and reporting
  ioFault,       \* the file operations that fail at present: "read", "write" (any
                 \* write) or "writeHtml" (a write of an .html file)
  outputFiles,   \* the files written to the output directory
  report,        \* the last report call and how it ended
  \* the environment
  now,           \* new Date(): the current time
  tz             \* the process's local-time offset from UTC, in hours

aggVars == <<sessions, aggregated, permuted>>
derVars == <<stats, wstats, derivedDone, insights>>
recVars == <<store, recorded, wrapped, lastCall>>
parseVars == <<fileLines, parsedEvents, outcome, pc>>
readVars == <<projectsDir, yearFilter, found, parsedAll, loaded>>
outVars == <<ioFault, outputFiles, report>>
envVars == <<now, tz>>
vars == <<aggVars, derVars, recVars, parseVars, readVars, outVars, envVars>>

-----------------------------------------------------------------------------
(* The parts of the state a specification leaves alone *)

IdleAgg == sessions = <<>> /\ aggregated = <<>> /\ permuted = <<>>
IdleDerived == stats = <<>> /\ wstats = <<>> /\ derivedDone = {} /\ insights = <<>>
NoOutcome == [threw |-> FALSE, stats |-> <<>>]
IdleParse ==
  fileLines = <<>> /\ parsedEvents = <<>> /\ outcome = NoOutcome /\ pc = "idle"
NoDir == [exists |-> FALSE, entries |-> <<>>]
IdleRead ==
  /\ projectsDir = NoDir
  /\ yearFilter = 0
  /\ found = <<>>
  /\ parsedAll = <<>>
  /\ loaded = <<>>
NoFile == [name |-> "", year |-> 0, ext |-> ""]
NoReport ==
  [ op |-> "none", requested |-> 0, kind |-> "none", error |-> "", year |-> 0,
    data |-> <<>>, filename |-> NoFile, written |-> {} ]
IdleOut == ioFault = {} /\ outputFiles = {} /\ report = NoReport
NoCall == [op |-> "none", year |-> 0, error |-> ""]
IdleRecorded ==
  /\ store = [exists |-> FALSE, sessions |-> <<>>]
  /\ recorded = <<>>
  /\ wrapped = <<>>
  /\ lastCall = NoCall

-----------------------------------------------------------------------------
(* Values *)

NullStr == "null"
NoTime == [date |-> <<0, 0, 0>>, sec |-> 0]

\* JavaScript truthiness of a string-or-null value: if (session.project), ...
Truthy(s) == s # NullStr /\ s # ""

\* The local-time offsets the model runs under (hours east of UTC).
TZOffsets == {0 - 5, 9}

Max(a, b) == IF a >= b THEN a ELSE b
Min(a, b) == IF a <= b THEN a ELSE b

RECURSIVE SumSeq(_)
SumSeq(s) == IF s = <<>> THEN 0 ELSE Head(s) + SumSeq(Tail(s))

Range(s) == {s[i] : i \in 1..Len(s)}

-----------------------------------------------------------------------------
(* Histogram objects: {key: count} as the sequence of Object.entries *)

Keys(m) == [i \in 1..Len(m) |-> m[i][1]]
Values(m) == [i \in 1..Len(m) |-> m[i][2]]
KeySet(m) == {m[i][1] : i \in 1..Len(m)}
HasKey(m, k) == \E i \in 1..Len(m) : m[i][1] = k

\* m[k] || 0
Get(m, k) == IF HasKey(m, k) THEN m[CHOOSE i \in 1..Len(m) : m[i][1] = k][2] ELSE 0

\* m[k] = v for a string key: an existing key keeps its place, a new key is
\* appended (insertion order).
Put(m, k, v) ==
  IF HasKey(m, k)
    THEN [i \in 1..Len(m) |-> IF m[i][1] = k THEN <<k, v>> ELSE m[i]]
    ELSE Append(m, <<k, v>>)

\* m[k] = v for an integer key: integer keys are enumerated in ascending order,
\* whatever the insertion order.
PutInt(m, k, v) ==
  IF HasKey(m, k)
    THEN [i \in 1..Len(m) |-> IF m[i][1] = k THEN <<k, v>> ELSE m[i]]
    ELSE LET before == SelectSeq(m, LAMBDA e : e[1] < k)
             after  == SelectSeq(m, LAMBDA e : e[1] > k)
         IN  before \o <<<<k, v>>>> \o after

\* The histogram as a key -> count mapping, key order forgotten.
AsMapping(m) == [k \in KeySet(m) |-> Get(m, k)]

-----------------------------------------------------------------------------
(* Dates *)

\* The local hour is not wrapped around midnight.
getHoursUnwrapped(ts, offset) == (ts.sec \div 3600) + offset

\* new Date(ts).getHours(): the hour of the day in local time.
getHours(ts, offset) == ((ts.sec \div 3600) + offset) % 24

\* new Date(ts).toISOString().split('T')[0]: the UTC date of the timestamp.
isoDay(ts) == ts.date

-----------------------------------------------------------------------------
(* ClaudeCodeParser.aggregateStats *)

\* The accumulator before the loop.
aggregateInit(ss) ==
  [ totalSessions |-> Len(ss),
    totalMessages |-> 0,
    totalUserMessages |-> 0,
    totalAssistantMessages |-> 0,
    totalDuration |-> 0,
    totalFilesAccessed |-> {},
    totalFilesModified |-> {},
    totalFilesCreated |-> {},
    toolUsage |-> <<>>,
    languageStats |-> <<>>,
    projectStats |-> <<>>,
    dailyActivity |-> <<>>,
    hourlyActivity |-> <<>>,
    gitBranches |-> {},
    totalThinkingBlocks |-> 0 ]

\* session.filesAccessed.forEach(f => aggregated.totalFilesAccessed.add(f))
addAllReplacing(set, items) == Range(items)

addAll(set, items) == set \cup Range(items)

RECURSIVE mergeToolUsageOverwriting(_, _)
mergeToolUsageOverwriting(acc, usage) ==
  IF usage = <<>> THEN acc
  ELSE mergeToolUsageOverwriting(Put(acc, Head(usage)[1], Head(usage)[2]), Tail(usage))

\* for (const [tool, count] of Object.entries(session.toolUsage))
\*   aggregated.toolUsage[tool] = (aggregated.toolUsage[tool] || 0) + count
RECURSIVE mergeToolUsage(_, _)
mergeToolUsage(acc, usage) ==
  IF usage = <<>> THEN acc
  ELSE mergeToolUsage(Put(acc, Head(usage)[1], Get(acc, Head(usage)[1]) + Head(usage)[2]),
                      Tail(usage))

\* session.languages.forEach(lang => languageStats[lang] = (languageStats[lang] || 0) + 1)
RECURSIVE countEach(_, _)
countEach(acc, items) ==
  IF items = <<>> THEN acc
  ELSE countEach(Put(acc, Head(items), Get(acc, Head(items)) + 1), Tail(items))

\* One iteration of the loop over sessions.
aggregateSession(a, s, offset) ==
  LET day  == isoDay(s.startTime)
      hour == getHours(s.startTime, offset)
  IN  [ a EXCEPT
          !.totalMessages = @ + s.messageCount,
          !.totalUserMessages = @ + s.userMessages,
          !.totalAssistantMessages = @ + s.assistantMessages,
          !.totalDuration = @ + s.duration,
          !.totalThinkingBlocks = @ + s.thinkingBlocks,
          !.totalFilesAccessed = addAll(@, s.filesAccessed),
          !.totalFilesModified = addAll(@, s.filesModified),
          !.totalFilesCreated = addAll(@, s.filesCreated),
          !.toolUsage = mergeToolUsage(@, s.toolUsage),
          !.languageStats = countEach(@, s.languages),
          !.projectStats = IF Truthy(s.project)
                             THEN Put(@, s.project, Get(@, s.project) + 1) ELSE @,
          !.gitBranches = IF Truthy(s.gitBranch) THEN @ \cup {s.gitBranch} ELSE @,
          !.dailyActivity = IF s.startTime # NoTime
                              THEN Put(@, day, Get(@, day) + 1) ELSE @,
          !.hourlyActivity = IF s.startTime # NoTime
                               THEN PutInt(@, hour, Get(@, hour) + 1) ELSE @ ]

RECURSIVE aggregateLoop(_, _, _)
aggregateLoop(a, ss, offset) ==
  IF ss = <<>> THEN a
  ELSE aggregateLoop(aggregateSession(a, Head(ss), offset), Tail(ss), offset)

\* The sets are converted to counts after the loop; gitBranches stays a set.
aggregateStats(ss, offset) ==
  LET a == aggregateLoop(aggregateInit(ss), ss, offset)
  IN  [ a EXCEPT
          !.totalFilesAccessed = Cardinality(@),
          !.totalFilesModified = Cardinality(@),
          !.totalFilesCreated = Cardinality(@) ]
      @@ [ totalGitBranches |-> Cardinality(a.gitBranches), sessions |-> ss ]

-----------------------------------------------------------------------------
(* Inputs of aggregateStats: SessionStats records as analyzeSession returns *)
(* them (arrays without duplicates, toolUsage summing to the tool calls).   *)

MaxAggSessions == 3

StartTimes ==
  { NoTime,
    [date |-> <<2024, 1, 31>>, sec |-> 84600],
    [date |-> <<2024, 2, 1>>, sec |-> 22200] }

SessionShapes ==
  { [ messageCount |-> 2, userMessages |-> 1, assistantMessages |-> 1,
      duration |-> 5, thinkingBlocks |-> 1,
      filesAccessed |-> <<"a.js">>, filesModified |-> <<"a.js">>,
      filesCreated |-> <<>>,
      toolUsage |-> << <<"Edit", 1>> >>,
      languages |-> <<"JavaScript">>,
      project |-> "web", gitBranch |-> "main" ],
    [ messageCount |-> 3, userMessages |-> 1, assistantMessages |-> 2,
      duration |-> 0, thinkingBlocks |-> 0,
      filesAccessed |-> <<"b.py", "a.js">>, filesModified |-> <<"b.py">>,
      filesCreated |-> <<"b.py">>,
      toolUsage |-> << <<"Read", 1>>, <<"Write", 1>>, <<"Edit", 2>> >>,
      languages |-> <<"Python", "JavaScript">>,
      project |-> "api", gitBranch |-> "dev" ],
    [ messageCount |-> 1, userMessages |-> 1, assistantMessages |-> 0,
      duration |-> 2, thinkingBlocks |-> 0,
      filesAccessed |-> <<"c.go">>, filesModified |-> <<>>,
      filesCreated |-> <<"a.js">>,
      toolUsage |-> << <<"Bash", 2>>, <<"Read", 1>> >>,
      languages |-> <<"Go">>,
      project |-> NullStr, gitBranch |-> NullStr ] }

\* Six sessions: each shape at two of the three start times, so that two
\* sessions are without a start time and every day has two shapes.
SessionStatsPool ==
  { p.shape @@ [startTime |-> p.t] :
      p \in { q \in [shape : SessionShapes, t : StartTimes] :
                \/ q.t = NoTime /\ q.shape.gitBranch # "main"
                \/ q.t.date = <<2024, 1, 31>> /\ q.shape.gitBranch # NullStr
                \/ q.t.date = <<2024, 2, 1>> /\ q.shape.gitBranch # "dev" } }

SeqsUpTo(S, n) == UNION { [1..k -> S] : k \in 0..n }

Permute(ss, p) == [i \in 1..Len(ss) |-> ss[p[i]]]

-----------------------------------------------------------------------------
(* SpecAgg: aggregateStats applied to a session list and to a permutation *)

InitAgg ==
  /\ sessions \in SeqsUpTo(SessionStatsPool, MaxAggSessions)
  /\ tz \in TZOffsets
  /\ now = NoTime
  /\ aggregated = <<>>
  /\ permuted = <<>>
  /\ IdleDerived
  /\ IdleRecorded
  /\ IdleParse
  /\ IdleRead
  /\ IdleOut

AggregateStats ==
  /\ aggregated = <<>>
  /\ aggregated' = <<aggregateStats(sessions, tz)>>
  /\ UNCHANGED <<sessions, permuted, derVars, recVars, parseVars, readVars, outVars, envVars>>

AggregatePermuted ==
  /\ permuted = <<>>
  /\ \E p \in Permutations(1..Len(sessions)) :
       permuted' = <<aggregateStats(Permute(sessions, p), tz)>>
  /\ UNCHANGED <<sessions, aggregated, derVars, recVars, parseVars, readVars, outVars, envVars>>

NextAgg == AggregateStats \/ AggregatePermuted

SpecAgg == InitAgg /\ [][NextAgg]_vars

-----------------------------------------------------------------------------
(* Claims on aggregateStats (SpecAgg) *)

NoDuplicateKeys(m) == \A i, j \in 1..Len(m) : m[i][1] = m[j][1] => i = j

SameAggregate(a, b) ==
  /\ a.totalSessions = b.totalSessions
  /\ a.totalMessages = b.totalMessages
  /\ a.totalUserMessages = b.totalUserMessages
  /\ a.totalAssistantMessages = b.totalAssistantMessages
  /\ a.totalDuration = b.totalDuration
  /\ a.totalThinkingBlocks = b.totalThinkingBlocks
  /\ a.totalFilesAccessed = b.totalFilesAccessed
  /\ a.totalFilesModified = b.totalFilesModified
  /\ a.totalFilesCreated = b.totalFilesCreated
  /\ a.totalGitBranches = b.totalGitBranches
  /\ a.gitBranches = b.gitBranches
  /\ \A f \in {"toolUsage", "languageStats", "projectStats",
               "dailyActivity", "hourlyActivity"} :
       /\ NoDuplicateKeys(a[f]) /\ NoDuplicateKeys(b[f])
       /\ AsMapping(a[f]) = AsMapping(b[f])

\* C1: aggregateStats gives the same totals, set-derived counts and
\* key-to-count mappings for a session list and for every permutation of it.
C1_OrderIndependent ==
  (aggregated # <<>> /\ permuted # <<>>) => SameAggregate(aggregated[1], permuted[1])

\* Three sessions aggregated in two different orders, whose toolUsage entries
\* come out in different key orders.
C1_Witness ==
  /\ aggregated # <<>> /\ permuted # <<>>
  /\ Len(sessions) = 3
  /\ permuted[1].sessions # sessions
  /\ Keys(permuted[1].toolUsage) # Keys(aggregated[1].toolUsage)
  /\ Len(aggregated[1].dailyActivity) = 2

\* The per-session sets the set-based totals are unions of.
SessionSet(s, f) ==
  IF f = "gitBranch" THEN (IF Truthy(s.gitBranch) THEN {s.gitBranch} ELSE {})
  ELSE Range(s[f])

UnionOver(ss, f) == UNION {SessionSet(ss[i], f) : i \in 1..Len(ss)}
SumOver(ss, f) == SumSeq([i \in 1..Len(ss) |-> Cardinality(SessionSet(ss[i], f))])
Repeats(ss, f) ==
  \E i, j \in 1..Len(ss) : i # j /\ SessionSet(ss[i], f) \cap SessionSet(ss[j], f) # {}

SetTotalOk(total, ss, f) ==
  /\ total = Cardinality(UnionOver(ss, f))
  /\ total <= SumOver(ss, f)
  /\ Repeats(ss, f) => total < SumOver(ss, f)

\* C2: each set-based total of aggregateStats is the size of the union of the
\* per-session sets: at most the sum of their sizes, and strictly less when a
\* path or branch occurs in two different sessions.
C2_SetTotals ==
  aggregated # <<>> =>
    /\ SetTotalOk(aggregated[1].totalFilesAccessed, sessions, "filesAccessed")
    /\ SetTotalOk(aggregated[1].totalFilesModified, sessions, "filesModified")
    /\ SetTotalOk(aggregated[1].totalFilesCreated, sessions, "filesCreated")
    /\ SetTotalOk(aggregated[1].totalGitBranches, sessions, "gitBranch")

\* Three sessions with a path modified in two of them and a branch shared by
\* two of them, next to a second branch.
C2_Witness ==
  /\ aggregated # <<>>
  /\ Len(sessions) = 3
  /\ Repeats(sessions, "filesModified")
  /\ Repeats(sessions, "gitBranch")
  /\ aggregated[1].totalGitBranches = 2
  /\ aggregated[1].totalFilesModified = 2
  /\ SumOver(sessions, "filesModified") = 3

-----------------------------------------------------------------------------
(* Dates and Array.prototype.sort *)

IsLeapYear(y) == (y % 4 = 0 /\ y % 100 # 0) \/ y % 400 = 0

DaysInMonth(y, m) ==
  IF m = 2 THEN (IF IsLeapYear(y) THEN 29 ELSE 28)
  ELSE IF m \in {4, 6, 9, 11} THEN 30 ELSE 31

RECURSIVE DaysBeforeMonth(_, _)
DaysBeforeMonth(y, m) ==
  IF m = 1 THEN 0 ELSE DaysBeforeMonth(y, m - 1) + DaysInMonth(y, m - 1)

DaysBeforeYear(y) ==
  365 * (y - 1) + ((y - 1) \div 4) - ((y - 1) \div 100) + ((y - 1) \div 400)

\* new Date("YYYY-MM-DD"): midnight UTC of that day, here in seconds since
\* 1970-01-01 (a Date's value is in milliseconds since then).
dateParse(key) ==
  (DaysBeforeYear(key[1]) + DaysBeforeMonth(key[1], key[2]) + key[3]
     - (DaysBeforeYear(1970) + 1)) * 86400

\* A Date built from a full timestamp, in seconds.
timeOf(ts) == dateParse(ts.date) + ts.sec

\* String order on "YYYY-MM-DD" keys.
StrLessEq(a, b) ==
  \/ a[1] < b[1]
  \/ a[1] = b[1] /\ a[2] < b[2]
  \/ a[1] = b[1] /\ a[2] = b[2] /\ a[3] <= b[3]

\* dates.sort() left out: the keys stay in Object.keys order.
sortStringsForgotten(keys) == keys

\* Object.keys(...).sort(): the default sort, by string order.
sortStrings(keys) ==
  LET RECURSIVE ins(_, _)
      ins(x, sorted) ==
        IF sorted = <<>> THEN <<x>>
        ELSE IF StrLessEq(Head(sorted), x) THEN <<Head(sorted)>> \o ins(x, Tail(sorted))
        ELSE <<x>> \o sorted
      RECURSIVE go(_, _)
      go(rest, sorted) ==
        IF rest = <<>> THEN sorted ELSE go(Tail(rest), ins(Head(rest), sorted))
  IN  go(keys, <<>>)

\* entries.sort((a, b) => b[1] - a[1]) left out.
sortByCountForgotten(entries) == entries

\* entries.sort((a, b) => b[1] - a[1]): descending by count; the sort is
\* stable, so entries with equal counts keep their order.
sortByCount(entries) ==
  LET RECURSIVE ins(_, _)
      ins(x, sorted) ==
        IF sorted = <<>> THEN <<x>>
        ELSE IF Head(sorted)[2] - x[2] >= 0 THEN <<Head(sorted)>> \o ins(x, Tail(sorted))
        ELSE <<x>> \o sorted
      RECURSIVE go(_, _)
      go(rest, sorted) ==
        IF rest = <<>> THEN sorted ELSE go(Tail(rest), ins(Head(rest), sorted))
  IN  go(entries, <<>>)

\* .slice(0, 5)
TopN == 5
sliceTop(entries) == SubSeq(entries, 1, Min(TopN, Len(entries)))

-----------------------------------------------------------------------------
(* RealWrappedGenerator: toWrappedFormat, calculateDerivedStats, calculateStreaks *)

\* The stats object toWrappedFormat builds before calculateDerivedStats runs.
\* A derived {key, count} object is <<key, count>>; null is <<>>.
Real_toWrappedStats(a) ==
  [ totalSessions |-> a.totalSessions,
    totalMessages |-> a.totalMessages,
    totalFilesModified |-> a.totalFilesModified,
    totalFilesCreated |-> a.totalFilesCreated,
    totalFilesAccessed |-> a.totalFilesAccessed,
    totalToolCalls |-> SumSeq(Values(a.toolUsage)),
    toolUsage |-> a.toolUsage,
    languageStats |-> a.languageStats,
    projectStats |-> a.projectStats,
    dailyActivity |-> a.dailyActivity,
    hourlyActivity |-> a.hourlyActivity,
    totalDuration |-> a.totalDuration,
    totalThinkingBlocks |-> a.totalThinkingBlocks,
    totalGitBranches |-> a.totalGitBranches,
    longestStreak |-> 0,
    currentStreak |-> 0,
    topProjects |-> <<>>,
    mostProductiveDay |-> <<>>,
    mostProductiveHour |-> <<>>,
    favoriteLanguage |-> <<>>,
    mostUsedTool |-> <<>> ]

\* let max = 0; for (const [key, count] of Object.entries(m))
\*   if (count > max) { max = count; stats.field = {key, count}; }
RECURSIVE Real_scanMax(_, _, _)
Real_scanMax(entries, max, best) ==
  IF entries = <<>> THEN best
  ELSE IF Head(entries)[2] > max
         THEN Real_scanMax(Tail(entries), Head(entries)[2], <<Head(entries)>>)
         ELSE Real_scanMax(Tail(entries), max, best)

\* for (let i = 1; i < dates.length; i++): k is i + 1.
RECURSIVE Real_streakLoop(_, _, _, _)
Real_streakLoop(dates, k, longestStreak, tempStreak) ==
  IF k > Len(dates) THEN [longestStreak |-> longestStreak, tempStreak |-> tempStreak]
  ELSE LET diffDays == (dateParse(dates[k]) - dateParse(dates[k - 1])) \div 86400
       IN  IF diffDays = 1
             THEN Real_streakLoop(dates, k + 1, longestStreak, tempStreak + 1)
             ELSE Real_streakLoop(dates, k + 1, Max(longestStreak, tempStreak), 1)

\* The final running streak is not closed into longestStreak.
Real_closeStreakForgotten(longestStreak, tempStreak) == longestStreak

\* longestStreak = Math.max(longestStreak, tempStreak) after the loop
Real_closeStreak(longestStreak, tempStreak) == Max(longestStreak, tempStreak)

\* calculateStreaks past its guard. On an empty dates array lastDate is an
\* Invalid Date and daysSinceLastActivity is NaN, which is not <= 1.
Real_streaksOf(st, dates, t) ==
  LET w == Real_streakLoop(dates, 2, 1, 1)
      daysSinceLastActivity ==
        IF dates = <<>> THEN 0 ELSE (timeOf(t) - dateParse(dates[Len(dates)])) \div 86400
      currentStreak ==
        IF dates # <<>> /\ daysSinceLastActivity <= 1 THEN w.tempStreak ELSE 0
  IN  [ st EXCEPT !.longestStreak = Real_closeStreak(w.longestStreak, w.tempStreak),
                  !.currentStreak = currentStreak ]

\* The guard on an empty dates array is missing.
Real_calculateStreaksUnguarded(st, t) ==
  Real_streaksOf(st, sortStrings(Keys(st.dailyActivity)), t)

Real_calculateStreaks(st, t) ==
  LET dates == sortStrings(Keys(st.dailyActivity))
  IN  IF Len(dates) = 0 THEN st ELSE Real_streaksOf(st, dates, t)

Real_topProjects(projectStats) == sliceTop(sortByCount(projectStats))

Real_calculateDerivedStats(st, t) ==
  Real_calculateStreaks(
    [ st EXCEPT
        !.mostProductiveDay = Real_scanMax(st.dailyActivity, 0, @),
        !.mostProductiveHour = Real_scanMax(st.hourlyActivity, 0, @),
        !.favoriteLanguage = Real_scanMax(st.languageStats, 0, @),
        !.mostUsedTool = Real_scanMax(st.toolUsage, 0, @),
        !.topProjects = Real_topProjects(st.projectStats) ],
    t)

-----------------------------------------------------------------------------
(* WrappedData: constructor, addSession, updateStats, calculateDerivedStats, *)
(* calculateStreaks                                                          *)

NoDate == <<0, 0, 0>>

\* this.stats as the constructor leaves it.
WrappedData_stats ==
  [ totalSessions |-> 0,
    totalMessages |-> 0,
    totalFilesModified |-> 0,
    totalFilesCreated |-> 0,
    totalLinesAdded |-> 0,
    totalLinesRemoved |-> 0,
    totalToolCalls |-> 0,
    toolUsage |-> <<>>,
    languageStats |-> <<>>,
    projectStats |-> <<>>,
    dailyActivity |-> <<>>,
    hourlyActivity |-> <<>>,
    longestStreak |-> 0,
    currentStreak |-> 0,
    topFiles |-> <<>>,
    topProjects |-> <<>>,
    mostProductiveDay |-> <<>>,
    mostProductiveHour |-> <<>>,
    favoriteLanguage |-> <<>> ]

\* new WrappedData()
WrappedData_new(year) == [year |-> year, sessions |-> <<>>, stats |-> WrappedData_stats]

\* The distinct elements are counted instead of the elements.
lengthOfDistinct(arr) == Cardinality(Range(arr))

\* session.toolCalls?.length || 0
lengthOrZero(arr) == Len(arr)

\* updateStats(session). An absent field of the session is 0, <<>>, NullStr,
\* NoDate or NoTime: `|| 0`, `?.length || 0` and the if-guards treat an absent
\* field as they treat those.
WrappedData_updateStats(st, session, offset) ==
  LET day  == session.date
      hour == getHours(session.timestamp, offset)
  IN  [ st EXCEPT
          !.totalSessions = @ + 1,
          !.totalMessages = @ + session.messageCount,
          !.totalFilesModified = @ + lengthOrZero(session.filesModified),
          !.totalFilesCreated = @ + lengthOrZero(session.filesCreated),
          !.totalLinesAdded = @ + session.linesAdded,
          !.totalLinesRemoved = @ + session.linesRemoved,
          !.totalToolCalls = @ + lengthOrZero(session.toolCalls),
          !.toolUsage = countEach(@, session.toolCalls),
          !.languageStats = countEach(@, session.languages),
          !.projectStats = IF Truthy(session.project)
                             THEN Put(@, session.project, Get(@, session.project) + 1)
                             ELSE @,
          !.dailyActivity = IF session.date # NoDate
                              THEN Put(@, day, Get(@, day) + 1) ELSE @,
          !.hourlyActivity = IF session.timestamp # NoTime
                               THEN PutInt(@, hour, Get(@, hour) + 1) ELSE @ ]

\* The session is counted but not kept.
WrappedData_addSessionUnkept(w, session, offset) ==
  [ w EXCEPT !.stats = WrappedData_updateStats(@, session, offset) ]

WrappedData_addSession(w, session, offset) ==
  [ w EXCEPT !.sessions = Append(@, session),
             !.stats = WrappedData_updateStats(@, session, offset) ]

RECURSIVE WrappedData_scanMax(_, _, _)
WrappedData_scanMax(entries, max, best) ==
  IF entries = <<>> THEN best
  ELSE IF Head(entries)[2] > max
         THEN WrappedData_scanMax(Tail(entries), Head(entries)[2], <<Head(entries)>>)
         ELSE WrappedData_scanMax(Tail(entries), max, best)

RECURSIVE WrappedData_streakLoop(_, _, _, _)
WrappedData_streakLoop(dates, k, longestStreak, tempStreak) ==
  IF k > Len(dates) THEN [longestStreak |-> longestStreak, tempStreak |-> tempStreak]
  ELSE LET diffDays == (dateParse(dates[k]) - dateParse(dates[k - 1])) \div 86400
       IN  IF diffDays = 1
             THEN WrappedData_streakLoop(dates, k + 1, longestStreak, tempStreak + 1)
             ELSE WrappedData_streakLoop(dates, k + 1, Max(longestStreak, tempStreak), 1)

\* currentStreak keeps the value of the previous run when the last day is
\* no longer recent.
WrappedData_calculateStreaksStale(st, t) ==
  LET dates == sortStrings(Keys(st.dailyActivity))
      w == WrappedData_streakLoop(dates, 2, 1, 1)
      daysSinceLastActivity == (timeOf(t) - dateParse(dates[Len(dates)])) \div 86400
  IN  IF Len(dates) = 0 THEN st
      ELSE [ st EXCEPT
               !.longestStreak = Max(w.longestStreak, w.tempStreak),
               !.currentStreak = IF daysSinceLastActivity <= 1 THEN w.tempStreak ELSE @ ]

\* let currentStreak = 1 ... if (daysSinceLastActivity <= 1) currentStreak = tempStreak
WrappedData_calculateStreaks(st, t) ==
  LET dates == sortStrings(Keys(st.dailyActivity))
      w == WrappedData_streakLoop(dates, 2, 1, 1)
      daysSinceLastActivity == (timeOf(t) - dateParse(dates[Len(dates)])) \div 86400
  IN  IF Len(dates) = 0 THEN st
      ELSE [ st EXCEPT
               !.longestStreak = Max(w.longestStreak, w.tempStreak),
               !.currentStreak = IF daysSinceLastActivity <= 1 THEN w.tempStreak ELSE 1 ]

WrappedData_topProjects(projectStats) == sliceTop(sortByCount(projectStats))

WrappedData_calculateDerivedStats(st, t) ==
  [ WrappedData_calculateStreaks(
      [ st EXCEPT
          !.mostProductiveDay = WrappedData_scanMax(st.dailyActivity, 0, @),
          !.mostProductiveHour = WrappedData_scanMax(st.hourlyActivity, 0, @),
          !.favoriteLanguage = WrappedData_scanMax(st.languageStats, 0, @) ],
      t)
    EXCEPT !.topProjects = WrappedData_topProjects(st.projectStats) ]

-----------------------------------------------------------------------------
(* SpecDerived: both calculateDerivedStats applied to drawn histograms *)

MaxProjects == 7
MaxCount == 2

\* Calendar days across a year end, a ten-day gap and a leap day.
DateWindow ==
  { <<2023, 12, 30>>, <<2023, 12, 31>>, <<2024, 1, 1>>, <<2024, 1, 2>>, <<2024, 1, 3>>,
    <<2024, 1, 10>>, <<2024, 2, 28>>, <<2024, 2, 29>>, <<2024, 3, 1>> }

\* Instants before, within and after the window, on both sides of the
\* two-day limit after 2024-01-10 and after 2024-03-01.
Nows ==
  { [date |-> <<2023, 12, 29>>, sec |-> 43200],
    [date |-> <<2024, 1, 3>>, sec |-> 36000],
    [date |-> <<2024, 1, 11>>, sec |-> 86399],
    [date |-> <<2024, 1, 12>>, sec |-> 0],
    [date |-> <<2024, 3, 2>>, sec |-> 86399],
    [date |-> <<2024, 3, 3>>, sec |-> 0] }

ProjectNames == <<"web", "api", "cli", "docs", "infra", "mobile", "data", "ml">>

RECURSIVE AscendingSeq(_)
AscendingSeq(S) ==
  IF S = {} THEN <<>>
  ELSE LET m == CHOOSE x \in S : \A y \in S : StrLessEq(x, y)
       IN  <<m>> \o AscendingSeq(S \ {m})

Reverse(q) == [i \in 1..Len(q) |-> q[Len(q) + 1 - i]]

\* dailyActivity objects: every set of days of the window, its keys inserted
\* in ascending or in descending order, one session a day.
DailyInputs ==
  { [i \in 1..Len(q) |-> <<q[i], 1>>] :
      q \in UNION { {AscendingSeq(D), Reverse(AscendingSeq(D))} : D \in SUBSET DateWindow } }

\* projectStats objects: up to MaxProjects projects in insertion order, each
\* with 1..MaxCount sessions.
ProjectInputs ==
  UNION { { [i \in 1..k |-> <<ProjectNames[i], c[i]>>] : c \in [1..k -> 1..MaxCount] } :
            k \in 0..MaxProjects }

NoOtherHistograms == [hourly |-> <<>>, languages |-> <<>>, tools |-> <<>>]

\* Count vectors for up to three keys.
CountInputs == UNION { [1..k -> 1..MaxCount] : k \in 0..3 }

\* The keys of the four histograms in Object.entries order: days and names
\* as inserted, hours ascending.
HistogramOf(keys, counts) == [i \in 1..Len(counts) |-> <<keys[i], counts[i]>>]

DerivedInputs ==
  { [daily |-> d, projects |-> <<>>, t |-> t] @@ NoOtherHistograms :
      d \in DailyInputs, t \in Nows }
    \cup
  { [daily |-> d, projects |-> ps, t |-> [date |-> <<2024, 1, 3>>, sec |-> 36000]]
      @@ NoOtherHistograms :
      d \in {<<>>, << <<<<2024, 1, 3>>, 1>> >>}, ps \in ProjectInputs }
    \cup
  { [ daily |-> HistogramOf(<< <<2024, 1, 3>>, <<2024, 1, 1>>, <<2024, 1, 2>> >>, a),
      hourly |-> HistogramOf(<<9, 14, 22>>, a),
      languages |-> HistogramOf(<<"Python", "JavaScript", "Go">>, b),
      tools |-> HistogramOf(<<"Read", "Edit", "Bash">>, b),
      projects |-> <<>>,
      t |-> [date |-> <<2024, 1, 3>>, sec |-> 36000] ] :
      a \in CountInputs, b \in CountInputs }

\* What aggregateStats returns for sessions with these histograms and nothing else.
AggregatedFor(daily, projects) ==
  [ aggregateInit(<<>>) EXCEPT
      !.totalSessions = Max(SumSeq(Values(daily)), SumSeq(Values(projects))),
      !.totalFilesAccessed = 0, !.totalFilesModified = 0, !.totalFilesCreated = 0,
      !.dailyActivity = daily,
      !.projectStats = projects ]
  @@ [ totalGitBranches |-> 0 ]

InitDerived ==
  /\ IdleAgg
  /\ IdleRecorded
  /\ IdleParse
  /\ IdleRead
  /\ IdleOut
  /\ tz = 0
  /\ derivedDone = {}
  /\ insights = <<>>
  /\ \E inp \in DerivedInputs :
       /\ now = inp.t
       /\ stats = Real_toWrappedStats(
                    [ AggregatedFor(inp.daily, inp.projects) EXCEPT
                        !.hourlyActivity = inp.hourly,
                        !.languageStats = inp.languages,
                        !.toolUsage = inp.tools ])
       /\ wstats = [ WrappedData_stats EXCEPT
                       !.totalSessions =
                          Max(SumSeq(Values(inp.daily)), SumSeq(Values(inp.projects))),
                       !.totalToolCalls = SumSeq(Values(inp.tools)),
                       !.dailyActivity = inp.daily,
                       !.hourlyActivity = inp.hourly,
                       !.languageStats = inp.languages,
                       !.toolUsage = inp.tools,
                       !.projectStats = inp.projects ]

RealCalculateDerivedStats ==
  /\ "Real" \notin derivedDone
  /\ stats' = Real_calculateDerivedStats(stats, now)
  /\ derivedDone' = derivedDone \cup {"Real"}
  /\ UNCHANGED <<wstats, insights, aggVars, recVars, parseVars, readVars, outVars, envVars>>

WrappedCalculateDerivedStats ==
  /\ wstats' = WrappedData_calculateDerivedStats(wstats, now)
  /\ derivedDone' = derivedDone \cup {"Wrapped"}
  /\ UNCHANGED <<stats, insights, aggVars, recVars, parseVars, readVars, outVars, envVars>>

NextDerived == RealCalculateDerivedStats \/ WrappedCalculateDerivedStats

SpecDerived == InitDerived /\ [][NextDerived]_vars

-----------------------------------------------------------------------------
(* Claims on the derived-stats calculators (SpecDerived) *)

\* The calendar, day by day.
NextDay(k) ==
  IF k[3] < DaysInMonth(k[1], k[2]) THEN <<k[1], k[2], k[3] + 1>>
  ELSE IF k[2] < 12 THEN <<k[1], k[2] + 1, 1>>
  ELSE <<k[1] + 1, 1, 1>>

PrevDay(k) ==
  IF k[3] > 1 THEN <<k[1], k[2], k[3] - 1>>
  ELSE IF k[2] > 1 THEN <<k[1], k[2] - 1, DaysInMonth(k[1], k[2] - 1)>>
  ELSE <<k[1] - 1, 12, 31>>

\* The number of consecutive days of D from d on, and back from d.
RECURSIVE RunFrom(_, _)
RunFrom(D, d) == IF d \notin D THEN 0 ELSE 1 + RunFrom(D \ {d}, NextDay(d))

RECURSIVE RunEndingAt(_, _)
RunEndingAt(D, d) == IF d \notin D THEN 0 ELSE 1 + RunEndingAt(D \ {d}, PrevDay(d))

LongestRun(D) == CHOOSE n \in 1..Cardinality(D) :
                   /\ \E d \in D : RunFrom(D, d) = n
                   /\ \A d \in D : RunFrom(D, d) <= n

LastDay(D) == CHOOSE d \in D : \A e \in D : StrLessEq(e, d)

\* Whole days from midnight UTC of day d to the instant t (negative when t
\* is before d).
WholeDaysSince(d, t) == (timeOf(t) - dateParse(d)) \div 86400

Days(st) == KeySet(st.dailyActivity)

RealDone == "Real" \in derivedDone
WrappedDone == "Wrapped" \in derivedDone

StreakBounds(st) ==
  /\ st.longestStreak >= st.currentStreak
  /\ st.currentStreak >= 0
  /\ st.longestStreak >= 1

\* C4: for a non-empty dailyActivity and any current time, calculateStreaks
\* leaves longestStreak >= currentStreak >= 0 and longestStreak >= 1, in
\* RealWrappedGenerator and in WrappedData.
C4_StreakBounds ==
  /\ (RealDone /\ stats.dailyActivity # <<>>) => StreakBounds(stats)
  /\ (WrappedDone /\ wstats.dailyActivity # <<>>) => StreakBounds(wstats)

\* Both calculators have run on days whose last run is live and is not the
\* longest one.
C4_Witness ==
  /\ RealDone /\ WrappedDone
  /\ stats.currentStreak = 2 /\ stats.longestStreak = 5
  /\ wstats.currentStreak = 2 /\ wstats.longestStreak = 5

\* C5: longestStreak is the length of the longest run of calendar-consecutive
\* dates among the keys of a non-empty dailyActivity.
C5_LongestStreak ==
  /\ (RealDone /\ stats.dailyActivity # <<>>) =>
        stats.longestStreak = LongestRun(Days(stats))
  /\ (WrappedDone /\ wstats.dailyActivity # <<>>) =>
        wstats.longestStreak = LongestRun(Days(wstats))

\* Keys inserted out of order, with a run over the leap day and a longer run
\* over the year end.
C5_Witness ==
  /\ RealDone /\ WrappedDone
  /\ Keys(stats.dailyActivity) # sortStrings(Keys(stats.dailyActivity))
  /\ {<<2024, 2, 28>>, <<2024, 2, 29>>, <<2024, 3, 1>>} \subseteq Days(stats)
  /\ stats.longestStreak = 4
  /\ wstats.longestStreak = 4
  /\ <<2023, 12, 30>> \notin Days(stats)

CurrentStreakOf(D, t) ==
  IF WholeDaysSince(LastDay(D), t) <= 1 THEN RunEndingAt(D, LastDay(D)) ELSE 0

\* C6: for a non-empty dailyActivity, in both pipelines, currentStreak is the
\* length of the run that ends at the most recent date when that date is at
\* most one whole day before now, and 0 otherwise.
C6_CurrentStreak ==
  /\ (RealDone /\ stats.dailyActivity # <<>>) =>
        stats.currentStreak = CurrentStreakOf(Days(stats), now)
  /\ (WrappedDone /\ wstats.dailyActivity # <<>>) =>
        wstats.currentStreak = CurrentStreakOf(Days(wstats), now)

\* C6, RealWrappedGenerator alone.
C6_RealCurrentStreak ==
  (RealDone /\ stats.dailyActivity # <<>>) =>
     stats.currentStreak = CurrentStreakOf(Days(stats), now)

\* The spec's scenario, moved to the window: three days in a row, a gap, a
\* last day, and now on the day after it.
C6_Witness ==
  /\ RealDone
  /\ Days(stats) = {<<2024, 1, 1>>, <<2024, 1, 2>>, <<2024, 1, 3>>, <<2024, 1, 10>>}
  /\ now.date = <<2024, 1, 11>>
  /\ stats.longestStreak = 3
  /\ stats.currentStreak = 1

\* C7: with an empty dailyActivity, calculateDerivedStats completes and
\* leaves longestStreak = 0 and currentStreak = 0.
C7_EmptyStreaks ==
  /\ (RealDone /\ stats.dailyActivity = <<>>) =>
        (stats.longestStreak = 0 /\ stats.currentStreak = 0)
  /\ (WrappedDone /\ wstats.dailyActivity = <<>>) =>
        (wstats.longestStreak = 0 /\ wstats.currentStreak = 0)

\* Both calculators have returned on an empty dailyActivity, having ranked
\* the projects.
C7_Witness ==
  /\ RealDone /\ WrappedDone
  /\ stats.dailyActivity = <<>> /\ wstats.dailyActivity = <<>>
  /\ Len(stats.topProjects) = 2 /\ Len(wstats.topProjects) = 2

Pos(m, k) == CHOOSE i \in 1..Len(m) : m[i][1] = k

TopProjectsOk(top, ps) ==
  /\ Len(top) = Min(5, Cardinality(KeySet(ps)))
  /\ \A i \in 1..Len(top) : HasKey(ps, top[i][1]) /\ top[i][2] = Get(ps, top[i][1])
  /\ \A i, j \in 1..Len(top) : i < j =>
       /\ top[i][1] # top[j][1]
       /\ top[i][2] >= top[j][2]
       /\ top[i][2] = top[j][2] => Pos(ps, top[i][1]) < Pos(ps, top[j][1])
  /\ \A e \in Range(ps) : ~HasKey(top, e[1]) =>
       \A i \in 1..Len(top) : e[2] <= top[i][2]

\* C8: topProjects has length min(5, number of projects), non-increasing
\* counts, equal counts in projectStats order, and no project left out with
\* a count above one that is included.
C8_TopProjects ==
  /\ RealDone => TopProjectsOk(stats.topProjects, stats.projectStats)
  /\ WrappedDone => TopProjectsOk(wstats.topProjects, wstats.projectStats)

\* Seven projects, the first with the lower count: the top five are not the
\* first five, two of them tie, and two projects are left out.
C8_Witness ==
  /\ RealDone /\ WrappedDone
  /\ Len(stats.projectStats) = 7
  /\ stats.projectStats[1][2] = 1 /\ stats.projectStats[7][2] = 2
  /\ stats.topProjects # SubSeq(stats.projectStats, 1, 5)
  /\ stats.topProjects[4][2] = stats.topProjects[5][2]
  /\ wstats.topProjects = stats.topProjects

-----------------------------------------------------------------------------
(* DataCollector and WrappedGenerator.generate *)

\* new Date(ts).getFullYear(): the year in local time.
getFullYear(ts, offset) ==
  LET localSec == ts.sec + offset * 3600
      y == ts.date[1]
  IN  IF localSec < 0 THEN (IF ts.date[2] = 1 /\ ts.date[3] = 1 THEN y - 1 ELSE y)
      ELSE IF localSec >= 86400
             THEN (IF ts.date[2] = 12 /\ ts.date[3] = 31 THEN y + 1 ELSE y)
      ELSE y

\* loadSessions(): [] when the file does not exist, else the parsed array.
\* The file holds JSON.stringify(sessions); numbers, strings and arrays of
\* strings come back from JSON.parse as they were written.
\* A failing read is caught and logged, and [] is returned.
DataCollector_loadSessions(file, fault) ==
  IF ~file.exists THEN <<>>
  ELSE IF "read" \in fault THEN <<>>
  ELSE file.sessions

\* saveSessions(sessions): the file after the call.  A failing write is
\* caught and logged; the file is then as it was.
DataCollector_saveSessions(file, ss, fault) ==
  IF "write" \in fault THEN file ELSE [exists |-> TRUE, sessions |-> ss]

\* generateSessionId(): `session_${Date.now()}_${random}`
DataCollector_generateSessionId(t, random) == <<"session", timeOf(t), random>>

\* The session recordSession builds: { id, timestamp, date, ...sessionData }.
\* A key of sessionData replaces the generated one.
DataCollector_newSession(sessionData, t, random) ==
  [ id |-> DataCollector_generateSessionId(t, random),
    timestamp |-> IF sessionData.timestamp # NoTime THEN sessionData.timestamp ELSE t,
    date |-> IF sessionData.date # NoDate THEN sessionData.date ELSE isoDay(t) ]
  @@ sessionData

\* recordSession(sessionData): the file after the call.
DataCollector_recordSession(file, sessionData, t, random, fault) ==
  DataCollector_saveSessions(
    file,
    Append(DataCollector_loadSessions(file, fault),
           DataCollector_newSession(sessionData, t, random)),
    fault)

\* getSessionsByYear(year)
DataCollector_getSessionsByYear(file, year, offset, fault) ==
  SelectSeq(DataCollector_loadSessions(file, fault),
            LAMBDA session : session.timestamp # NoTime
                             /\ getFullYear(session.timestamp, offset) = year)

RECURSIVE addSessions(_, _, _)
addSessions(w, ss, offset) ==
  IF ss = <<>> THEN w
  ELSE addSessions(WrappedData_addSession(w, Head(ss), offset), Tail(ss), offset)

\* WrappedGenerator.generate() past the no-data check.
WrappedGenerator_generate(ss, year, t, offset) ==
  LET w == addSessions(WrappedData_new(year), ss, offset)
  IN  [ w EXCEPT !.stats = WrappedData_calculateDerivedStats(@, t) ]

-----------------------------------------------------------------------------
(* Spec: the recorded-sessions pipeline *)

MaxStore == 2

Years == {2023, 2024}

RecordNows ==
  { [date |-> <<2024, 1, 1>>, sec |-> 7200],
    [date |-> <<2024, 1, 2>>, sec |-> 43200] }

RandomSuffixes == {"k3x9a"}

SessionDataShapes ==
  { [ messageCount |-> 5, linesAdded |-> 10, linesRemoved |-> 3,
      filesModified |-> <<"a.js", "b.py">>, filesCreated |-> <<"n.js">>,
      toolCalls |-> <<"Read", "Edit", "Read">>,
      languages |-> <<"JavaScript">>, project |-> "web" ],
    [ messageCount |-> 2, linesAdded |-> 0, linesRemoved |-> 1,
      filesModified |-> <<"a.js">>, filesCreated |-> <<"n.js">>,
      toolCalls |-> <<"Edit">>,
      languages |-> <<"JavaScript", "Python">>, project |-> "api" ],
    [ messageCount |-> 0, linesAdded |-> 0, linesRemoved |-> 0,
      filesModified |-> <<>>, filesCreated |-> <<>>,
      toolCalls |-> <<>>,
      languages |-> <<>>, project |-> NullStr ] }

\* sessionData with and without its own timestamp and date.
SessionDataPool ==
  { shape @@ o : shape \in SessionDataShapes,
                 o \in { [timestamp |-> NoTime, date |-> NoDate],
                         [timestamp |-> [date |-> <<2023, 12, 31>>, sec |-> 79200],
                          date |-> <<2023, 12, 31>>] } }

Init ==
  /\ IdleAgg
  /\ IdleDerived
  /\ IdleRecorded
  /\ IdleParse
  /\ IdleRead
  /\ IdleOut
  /\ now \in RecordNows
  /\ tz \in TZOffsets

\* Time passes.
Tick ==
  /\ \E t \in RecordNows : timeOf(t) > timeOf(now) /\ now' = t
  /\ UNCHANGED <<aggVars, derVars, recVars, parseVars, readVars, outVars, tz>>

RecordSession ==
  /\ Len(recorded) < MaxStore
  /\ \E sessionData \in SessionDataPool, random \in RandomSuffixes :
       /\ store' = DataCollector_recordSession(store, sessionData, now, random, ioFault)
       /\ recorded' = Append(recorded, sessionData)
  /\ lastCall' = [op |-> "recordSession", year |-> 0, error |-> ""]
  /\ UNCHANGED <<wrapped, aggVars, derVars, parseVars, readVars, outVars, envVars>>

\* new WrappedGenerator(year).generate()
Generate ==
  /\ \E year \in Years :
       LET ss == DataCollector_getSessionsByYear(store, year, tz, ioFault)
       IN  IF Len(ss) = 0
             THEN /\ lastCall' = [op |-> "generate", year |-> year,
                                  error |-> "No data found for year"]
                  /\ wrapped' = <<>>
             ELSE /\ lastCall' = [op |-> "generate", year |-> year, error |-> ""]
                  /\ wrapped' = <<WrappedGenerator_generate(ss, year, now, tz)>>
  /\ UNCHANGED <<store, recorded, aggVars, derVars, parseVars, readVars, outVars, envVars>>

Next == Tick \/ RecordSession \/ Generate

Spec == Init /\ [][Next]_vars

-----------------------------------------------------------------------------
(* Claims about the recorded-sessions pipeline *)

Generated == lastCall.op = "generate" /\ lastCall.error = "" /\ wrapped # <<>>

PathsOver(ss, field) == UNION { Range(s[field]) : s \in Range(ss) }

\* C3: in the WrappedData generate() returns, totalFilesModified and
\* totalFilesCreated are the number of distinct paths over the sessions that
\* were added: a path two sessions list is counted once.
C3_FileTotalsAreUnions ==
  Generated =>
    /\ wrapped[1].stats.totalFilesModified
         = Cardinality(PathsOver(wrapped[1].sessions, "filesModified"))
    /\ wrapped[1].stats.totalFilesCreated
         = Cardinality(PathsOver(wrapped[1].sessions, "filesCreated"))

\* The store was empty, recordSession ran once, and generate() then ran for
\* the year getSessionsByYear reads from the recorded timestamp.
RoundTripped ==
  /\ lastCall.op = "generate"
  /\ Len(recorded) = 1
  /\ Len(store.sessions) = 1
  /\ lastCall.year = getFullYear(store.sessions[1].timestamp, tz)

\* C9: after recordSession(s) on an empty store, generate() for the year of
\* the recorded timestamp does not fail, and its totals are those of s:
\* one session, s.messageCount messages, s.linesAdded and s.linesRemoved
\* lines, and as many files modified, files created and tool calls as the
\* arrays of s have elements.
C9_RoundTrip ==
  RoundTripped =>
    /\ Generated
    /\ LET st == wrapped[1].stats
           s  == recorded[1]
       IN  /\ st.totalSessions = 1
           /\ st.totalMessages = s.messageCount
           /\ st.totalLinesAdded = s.linesAdded
           /\ st.totalLinesRemoved = s.linesRemoved
           /\ st.totalFilesModified = Len(s.filesModified)
           /\ st.totalFilesCreated = Len(s.filesCreated)
           /\ st.totalToolCalls = Len(s.toolCalls)

\* C9 witness: a round trip of a session that carries its own timestamp of
\* the other year, repeats a tool and has every total positive.
C9_Witness ==
  /\ RoundTripped
  /\ Generated
  /\ recorded[1].timestamp # NoTime
  /\ lastCall.year # now.date[1]
  /\ wrapped[1].stats.totalToolCalls = 3
  /\ wrapped[1].stats.totalFilesModified = 2
  /\ wrapped[1].stats.totalMessages = 5

-----------------------------------------------------------------------------
(* ClaudeCodeParser.parseSessionFile *)

\* A line of a session file is its text: empty, white space only, text that
\* is not JSON, the text of a JSON value cut short, or the text of a JSON
\* value.  `value` is the value the complete text stands for.
isBlank(line) == line.kind \in {"empty", "spaces"}

\* JSON.parse(line): the value, or a SyntaxError.
JSON_parse(line) ==
  IF line.kind = "json" THEN [ok |-> TRUE, value |-> line.value]
  ELSE [ok |-> FALSE, value |-> line.value]

RECURSIVE dropBlankPrefix(_)
dropBlankPrefix(lines) ==
  IF lines # <<>> /\ isBlank(Head(lines)) THEN dropBlankPrefix(Tail(lines)) ELSE lines

RECURSIVE dropBlankSuffix(_)
dropBlankSuffix(lines) ==
  IF lines # <<>> /\ isBlank(lines[Len(lines)])
    THEN dropBlankSuffix(SubSeq(lines, 1, Len(lines) - 1))
    ELSE lines

\* content.trim().split('\n'): the lines without the blank ones at either
\* end; an all-blank content gives the one line ''.
trimSplit(lines) ==
  LET inner == dropBlankSuffix(dropBlankPrefix(lines))
  IN  IF inner = <<>> THEN << [kind |-> "empty", value |-> <<>>] >> ELSE inner

\* The loop gives up at the first line that does not parse.
RECURSIVE parseLinesAborting(_, _)
parseLinesAborting(lines, acc) ==
  IF lines = <<>> THEN acc
  ELSE IF isBlank(Head(lines)) THEN parseLinesAborting(Tail(lines), acc)
  ELSE IF JSON_parse(Head(lines)).ok
         THEN parseLinesAborting(Tail(lines), Append(acc, JSON_parse(Head(lines)).value))
  ELSE acc

\* for (const line of lines): a non-blank line is parsed and pushed; a
\* SyntaxError is caught and logged.
RECURSIVE parseLines(_, _)
parseLines(lines, acc) ==
  IF lines = <<>> THEN acc
  ELSE IF isBlank(Head(lines)) THEN parseLines(Tail(lines), acc)
  ELSE IF JSON_parse(Head(lines)).ok
         THEN parseLines(Tail(lines), Append(acc, JSON_parse(Head(lines)).value))
  ELSE parseLines(Tail(lines), acc)

parseSessionFile(lines) == parseLines(trimSplit(lines), <<>>)

-----------------------------------------------------------------------------
(* ClaudeCodeParser.analyzeSession *)

\* An event is the value of one line.  isNull marks the JSON value null; an
\* absent field holds NullStr (NoTime for the timestamp); message.content is
\* the sequence of its items, empty when there is no message or no array.
\* An item carries type, name and, when hasInput, input.file_path and
\* input.command.

\* Math.floor of an invalid date difference.
NaN == <<"NaN">>

\* path.extname(file_path).substring(1), on the paths the model uses.
extname(p) ==
  CASE p \in {"a.js", "n.js"} -> "js"
    [] p = "b.py" -> "py"
    [] p = "c.go" -> "go"
    [] p = "x.zz" -> "zz"
    [] OTHER -> ""

\* langMap[ext], NullStr when the extension is not in the map.
langMap(ext) ==
  CASE ext \in {"js", "jsx"} -> "JavaScript"
    [] ext \in {"ts", "tsx"} -> "TypeScript"
    [] ext = "py" -> "Python"
    [] ext = "go" -> "Go"
    [] ext = "rs" -> "Rust"
    [] ext = "java" -> "Java"
    [] ext = "cpp" -> "C++"
    [] ext = "c" -> "C"
    [] ext = "rb" -> "Ruby"
    [] ext = "php" -> "PHP"
    [] ext = "swift" -> "Swift"
    [] ext = "kt" -> "Kotlin"
    [] ext = "cs" -> "C#"
    [] ext = "html" -> "HTML"
    [] ext = "css" -> "CSS"
    [] ext \in {"sh", "bash"} -> "Shell"
    [] ext = "sql" -> "SQL"
    [] ext = "json" -> "JSON"
    [] ext \in {"yaml", "yml"} -> "YAML"
    [] ext = "md" -> "Markdown"
    [] OTHER -> NullStr

\* Set.add on a Set kept in insertion order (Array.from gives that order).
setAdd(arr, x) == IF x \in Range(arr) THEN arr ELSE Append(arr, x)

\* The stats object analyzeSession starts from.
analyzeInit ==
  [ sessionId |-> NullStr, project |-> NullStr,
    startTime |-> NoTime, endTime |-> NoTime, duration |-> 0,
    messageCount |-> 0, userMessages |-> 0, assistantMessages |-> 0,
    toolCalls |-> <<>>, toolUsage |-> <<>>,
    filesAccessed |-> <<>>, filesModified |-> <<>>, filesCreated |-> <<>>,
    bashCommands |-> <<>>, gitBranch |-> NullStr,
    languages |-> <<>>, thinkingBlocks |-> 0 ]

TypeError == [threw |-> TRUE, stats |-> <<>>]

\* Math.floor((end - start) / 1000 / 60)
durationMinutes(start, end) ==
  IF start = NoTime \/ end = NoTime THEN NaN
  ELSE (timeOf(end) - timeOf(start)) \div 60

\* if (item.input) { ... }
analyzeInput(st, item) ==
  [ st EXCEPT
      !.filesAccessed = IF Truthy(item.file_path) THEN setAdd(@, item.file_path) ELSE @,
      !.languages = IF Truthy(item.file_path)
                       /\ langMap(extname(item.file_path)) # NullStr
                      THEN setAdd(@, langMap(extname(item.file_path))) ELSE @,
      !.filesModified = IF item.name \in {"Write", "Edit"}
                          THEN setAdd(@, item.file_path) ELSE @,
      !.bashCommands = IF item.name = "Bash" /\ Truthy(item.command)
                         THEN Append(@, item.command) ELSE @ ]

\* One item of message.content, a tool seen again being counted as seen once.
analyzeItemOnce(st, item) ==
  LET used == IF item.type = "tool_use"
                THEN LET counted == [ st EXCEPT
                                        !.toolCalls = Append(@, item.name),
                                        !.toolUsage = Put(@, item.name, 1) ]
                     IN  IF item.hasInput THEN analyzeInput(counted, item)
                         ELSE counted
                ELSE st
  IN  IF item.type = "thinking"
        THEN [used EXCEPT !.thinkingBlocks = @ + 1] ELSE used

\* One item of message.content, the item not being null.
analyzeItem(st, item) ==
  LET used == IF item.type = "tool_use"
                THEN LET counted == [ st EXCEPT
                                        !.toolCalls = Append(@, item.name),
                                        !.toolUsage = Put(@, item.name,
                                                          Get(@, item.name) + 1) ]
                     IN  IF item.hasInput THEN analyzeInput(counted, item)
                         ELSE counted
                ELSE st
  IN  IF item.type = "thinking"
        THEN [used EXCEPT !.thinkingBlocks = @ + 1] ELSE used

\* for (const item of event.message.content): reading item.type of a null
\* item is a TypeError.
RECURSIVE analyzeContent(_, _)
analyzeContent(o, items) ==
  IF o.threw \/ items = <<>> THEN o
  ELSE IF Head(items).isNull THEN TypeError
  ELSE analyzeContent([o EXCEPT !.stats = analyzeItem(@, Head(items))], Tail(items))

\* The sub-type of a user event is not looked at.
countMessageAnyUser(st, event) ==
  IF event.type \in {"user", "assistant"}
    THEN [st EXCEPT !.userMessages = @ + (IF event.type = "user" THEN 1 ELSE 0),
                    !.assistantMessages = @ + (IF event.type = "assistant" THEN 1 ELSE 0),
                    !.messageCount = @ + 1]
    ELSE st

\* if (event.type === 'user' && ...) ... else if (event.type === 'assistant')
countMessage(st, event) ==
  IF event.type = "user" /\ event.userType = "external"
    THEN [st EXCEPT !.userMessages = @ + 1, !.messageCount = @ + 1]
  ELSE IF event.type = "assistant"
    THEN [st EXCEPT !.assistantMessages = @ + 1, !.messageCount = @ + 1]
  ELSE st

\* if (event.toolUseResult && event.toolUseResult.type === 'write')
addCreated(st, event) ==
  IF event.toolUseResult.type = "write"
    THEN [st EXCEPT !.filesCreated = setAdd(@, event.toolUseResult.filePath)]
    ELSE st

\* One pass of for (const event of events): reading event.type of a null
\* event is a TypeError.
analyzeEvent(o, event) ==
  IF o.threw THEN o
  ELSE IF event.isNull THEN TypeError
  ELSE LET c == analyzeContent([o EXCEPT !.stats = countMessage(@, event)],
                               event.content)
       IN  IF c.threw THEN c
           ELSE [c EXCEPT !.stats = addCreated(@, event)]

RECURSIVE analyzeEvents(_, _)
analyzeEvents(o, evs) ==
  IF evs = <<>> THEN o
  ELSE analyzeEvents(analyzeEvent(o, Head(evs)), Tail(evs))

\* analyzeSession past `if (events.length === 0) return stats`.
analyzeNonEmpty(evs) ==
  IF evs[1].isNull \/ evs[Len(evs)].isNull THEN TypeError
  ELSE analyzeEvents(
         [ threw |-> FALSE,
           stats |-> [ analyzeInit EXCEPT
                         !.sessionId = evs[1].sessionId,
                         !.project = evs[1].cwd,
                         !.gitBranch = evs[1].gitBranch,
                         !.startTime = evs[1].timestamp,
                         !.endTime = evs[Len(evs)].timestamp,
                         !.duration = durationMinutes(evs[1].timestamp,
                                                      evs[Len(evs)].timestamp) ] ],
         evs)

\* The early return is missing: events[0].sessionId is read of undefined.
analyzeSessionUnguarded(evs) ==
  IF Len(evs) = 0 THEN TypeError ELSE analyzeNonEmpty(evs)

\* analyzeSession(events): the SessionStats, or the TypeError it dies of.
analyzeSession(evs) ==
  IF Len(evs) = 0 THEN [threw |-> FALSE, stats |-> analyzeInit]
  ELSE analyzeNonEmpty(evs)

-----------------------------------------------------------------------------
(* SpecParse: parseSessionFile and analyzeSession on one session file *)

MaxLines == 3

NoResult == [type |-> NullStr, filePath |-> NullStr]

NoItem ==
  [ isNull |-> FALSE, type |-> NullStr, name |-> NullStr, hasInput |-> FALSE,
    file_path |-> NullStr, command |-> NullStr ]

\* {}
BareEvent ==
  [ isNull |-> FALSE, type |-> NullStr, userType |-> NullStr, content |-> <<>>,
    toolUseResult |-> NoResult, timestamp |-> NoTime, sessionId |-> NullStr,
    cwd |-> NullStr, gitBranch |-> NullStr ]

\* null
NullEvent == [BareEvent EXCEPT !.isNull = TRUE]

LoggedEvent ==
  [ BareEvent EXCEPT !.userType = "external", !.sessionId = "s1",
                     !.cwd = "/home/u/web", !.gitBranch = "main" ]

UserEvent ==
  [ LoggedEvent EXCEPT !.type = "user",
                       !.timestamp = [date |-> <<2024, 3, 5>>, sec |-> 36000] ]

AssistantEvent ==
  [ LoggedEvent EXCEPT
      !.type = "assistant",
      !.timestamp = [date |-> <<2024, 3, 5>>, sec |-> 36930],
      !.content = << [NoItem EXCEPT !.type = "thinking"],
                     [NoItem EXCEPT !.type = "tool_use", !.name = "Edit",
                                    !.hasInput = TRUE, !.file_path = "a.js"] >> ]

ResultEvent ==
  [ LoggedEvent EXCEPT
      !.type = "user",
      !.timestamp = [date |-> <<2024, 3, 5>>, sec |-> 36960],
      !.toolUseResult = [type |-> "write", filePath |-> "n.js"] ]

\* An assistant event whose content array holds null before a tool use.
BrokenItemEvent ==
  [ LoggedEvent EXCEPT
      !.type = "assistant",
      !.timestamp = [date |-> <<2024, 3, 5>>, sec |-> 36990],
      !.content = << [NoItem EXCEPT !.isNull = TRUE],
                     [NoItem EXCEPT !.type = "tool_use", !.name = "Read",
                                    !.hasInput = TRUE, !.file_path = "b.py"] >> ]

\* A user event that is not of external origin, and an event of another type.
InternalUserEvent ==
  [ LoggedEvent EXCEPT !.type = "user", !.userType = "internal",
                       !.timestamp = [date |-> <<2024, 3, 5>>, sec |-> 37020] ]

SystemEvent ==
  [ LoggedEvent EXCEPT !.type = "system",
                       !.timestamp = [date |-> <<2024, 3, 5>>, sec |-> 37050] ]

\* An assistant event with a Write whose input has no file_path, the same
\* Read twice, and a tool use without input.
ToolsEvent ==
  [ LoggedEvent EXCEPT
      !.type = "assistant",
      !.timestamp = [date |-> <<2024, 3, 5>>, sec |-> 37080],
      !.content = << [NoItem EXCEPT !.type = "tool_use", !.name = "Write",
                                    !.hasInput = TRUE],
                     [NoItem EXCEPT !.type = "tool_use", !.name = "Read",
                                    !.hasInput = TRUE, !.file_path = "b.py"],
                     [NoItem EXCEPT !.type = "tool_use", !.name = "Read",
                                    !.hasInput = TRUE, !.file_path = "b.py"],
                     [NoItem EXCEPT !.type = "tool_use", !.name = "Task"] >> ]

EventPool ==
  { BareEvent, NullEvent, UserEvent, AssistantEvent, ResultEvent, BrokenItemEvent,
    InternalUserEvent, SystemEvent, ToolsEvent }

LinePool ==
  { [kind |-> "empty", value |-> <<>>],
    [kind |-> "spaces", value |-> <<>>],
    [kind |-> "garbage", value |-> <<>>],
    [kind |-> "truncated", value |-> AssistantEvent] }
  \cup { [kind |-> "json", value |-> e] : e \in EventPool }

InitParse ==
  /\ IdleAgg
  /\ IdleDerived
  /\ IdleRecorded
  /\ IdleRead
  /\ IdleOut
  /\ fileLines \in SeqsUpTo(LinePool, MaxLines)
  /\ parsedEvents = <<>>
  /\ outcome = NoOutcome
  /\ pc = "start"
  /\ now = NoTime
  /\ tz = 0

ParseSessionFile ==
  /\ pc = "start"
  /\ parsedEvents' = parseSessionFile(fileLines)
  /\ pc' = "parsed"
  /\ UNCHANGED <<fileLines, outcome, aggVars, derVars, recVars, readVars, outVars, envVars>>

AnalyzeSession ==
  /\ pc = "parsed"
  /\ outcome' = analyzeSession(parsedEvents)
  /\ pc' = "analyzed"
  /\ UNCHANGED <<fileLines, parsedEvents, aggVars, derVars, recVars, readVars, outVars, envVars>>

NextParse == ParseSessionFile \/ AnalyzeSession

SpecParse == InitParse /\ [][NextParse]_vars

-----------------------------------------------------------------------------
(* Claims about parseSessionFile *)

\* The values of the lines that are JSON, in the order of the file.
ValidLines(lines) == SelectSeq(lines, LAMBDA l : l.kind = "json")
ValuesOf(lines) ==
  [i \in 1..Len(ValidLines(lines)) |-> ValidLines(lines)[i].value]

BadLines(lines) == {i \in 1..Len(lines) : lines[i].kind \in {"garbage", "truncated"}}

\* Every value is an event object with item objects.
EventObjects(evs) ==
  \A i \in 1..Len(evs) :
    /\ ~evs[i].isNull
    /\ \A j \in 1..Len(evs[i].content) : ~evs[i].content[j].isNull

IsMessage(e) ==
  (e.type = "user" /\ e.userType = "external") \/ e.type = "assistant"

RECURSIVE ToolNames(_)
ToolNames(evs) ==
  IF evs = <<>> THEN <<>>
  ELSE LET c == Head(evs).content
           uses == SelectSeq(c, LAMBDA item : item.type = "tool_use")
       IN  [i \in 1..Len(uses) |-> uses[i].name] \o ToolNames(Tail(evs))

CreatedPaths(evs) ==
  {evs[i].toolUseResult.filePath :
     i \in {k \in 1..Len(evs) : evs[k].toolUseResult.type = "write"}}

\* C10: parseSessionFile returns exactly the values of the lines that are
\* valid JSON, in file order, whatever blank or unparsable lines lie between
\* them; and when those values are event objects, analyzeSession returns a
\* SessionStats that reflects each of them: its first and last timestamps,
\* its messages, its tool calls and its created files.
C10_BadLinesSkipped ==
  /\ pc \in {"parsed", "analyzed"} => parsedEvents = ValuesOf(fileLines)
  /\ (pc = "analyzed" /\ EventObjects(ValuesOf(fileLines))) =>
       LET evs == ValuesOf(fileLines)
           st  == outcome.stats
       IN  /\ ~outcome.threw
           /\ evs # <<>> => /\ st.startTime = evs[1].timestamp
                            /\ st.endTime = evs[Len(evs)].timestamp
                            /\ st.sessionId = evs[1].sessionId
           /\ st.messageCount
                = Cardinality({i \in 1..Len(evs) : IsMessage(evs[i])})
           /\ st.toolCalls = ToolNames(evs)
           /\ Range(st.filesCreated) = CreatedPaths(evs)

\* C10 witness: an unparsable line between two event lines, both events
\* counted and the tool call of the later one recorded.
C10_Witness ==
  /\ pc = "analyzed"
  /\ Len(fileLines) = 3
  /\ BadLines(fileLines) = {2}
  /\ EventObjects(ValuesOf(fileLines))
  /\ Len(parsedEvents) = 2
  /\ outcome.stats.messageCount = 2
  /\ outcome.stats.toolCalls = <<"Edit">>

-----------------------------------------------------------------------------
(* Claims about analyzeSession *)

Analyzed == pc = "analyzed"

\* The events that are null or hold a null content item.
CorruptAt(evs) ==
  {i \in 1..Len(evs) :
     evs[i].isNull \/ \E j \in 1..Len(evs[i].content) : evs[i].content[j].isNull}

SoundEvents(evs) == SelectSeq(evs, LAMBDA e : ~e.isNull)

\* C11: when exactly one event of the sequence is null or holds a null
\* content item, analyzeSession still returns a SessionStats, and it counts
\* the messages and the created files of the other events.
C11_CorruptEventTolerated ==
  (Analyzed /\ Cardinality(CorruptAt(parsedEvents)) = 1) =>
    /\ ~outcome.threw
    /\ outcome.stats.messageCount
         >= Cardinality({i \in 1..Len(parsedEvents) \ CorruptAt(parsedEvents) :
                           IsMessage(parsedEvents[i])})
    /\ CreatedPaths(SoundEvents(parsedEvents)) \subseteq Range(outcome.stats.filesCreated)

\* C12: the duration analyzeSession returns for events with timestamps is
\* never negative, and it is the whole minutes from the first event's
\* timestamp to the last event's when the last is not the earlier one.
C12_DurationNonNegative ==
  (/\ Analyzed
   /\ ~outcome.threw
   /\ parsedEvents # <<>>
   /\ parsedEvents[1].timestamp # NoTime
   /\ parsedEvents[Len(parsedEvents)].timestamp # NoTime) =>
    LET start == timeOf(parsedEvents[1].timestamp)
        end   == timeOf(parsedEvents[Len(parsedEvents)].timestamp)
    IN  /\ outcome.stats.duration >= 0
        /\ end >= start => outcome.stats.duration = (end - start) \div 60

\* C13: on an empty event sequence analyzeSession returns, with every
\* numeric field 0 and toolUsage, filesAccessed, filesModified, filesCreated
\* and languages empty.
C13_EmptySession ==
  (Analyzed /\ parsedEvents = <<>>) =>
    /\ ~outcome.threw
    /\ LET st == outcome.stats
       IN  /\ st.duration = 0
           /\ st.messageCount = 0
           /\ st.userMessages = 0
           /\ st.assistantMessages = 0
           /\ st.thinkingBlocks = 0
           /\ st.toolUsage = <<>>
           /\ st.filesAccessed = <<>>
           /\ st.filesModified = <<>>
           /\ st.filesCreated = <<>>
           /\ st.languages = <<>>

\* C13 witness: a file of three lines none of which parses has been
\* analyzed as the empty event sequence.
C13_Witness ==
  /\ Analyzed
  /\ parsedEvents = <<>>
  /\ Len(fileLines) = 3
  /\ BadLines(fileLines) # {}
  /\ ~outcome.threw

-----------------------------------------------------------------------------
(* ClaudeCodeParser.findSessionFiles and parseAllSessions *)

\* The projects directory is [exists, entries]; an entry is
\* [name, isDirectory, files] and a file [name, readable, lines], its name
\* being [base, ext].

\* projectDir.replace(/-/g, '/').substring(1), on the names the model uses.
projectOfDir(name) ==
  CASE name = "-home-u-web" -> "home/u/web"
    [] name = "-home-u-api" -> "home/u/api"
    [] name = "-srv-my-app" -> "srv/my/app"
    [] OTHER -> "tmp/x"

\* The .jsonl files of one project directory, as findSessionFiles lists them.
jsonlFiles(entry) ==
  LET fs == SelectSeq(entry.files, LAMBDA f : f.name.ext = "jsonl")
  IN  [i \in 1..Len(fs) |->
         [ path |-> <<entry.name, fs[i].name>>,
           project |-> projectOfDir(entry.name),
           sessionId |-> fs[i].name.base ]]

RECURSIVE findInEntries(_)
findInEntries(entries) ==
  IF entries = <<>> THEN <<>>
  ELSE (IF Head(entries).isDirectory THEN jsonlFiles(Head(entries)) ELSE <<>>)
       \o findInEntries(Tail(entries))

\* The existence check is missing: fs.readdirSync throws on the absent
\* directory.
findSessionFilesUnchecked(dir) ==
  IF ~dir.exists THEN [threw |-> TRUE, error |-> "ENOENT", files |-> <<>>]
  ELSE [threw |-> FALSE, error |-> "", files |-> findInEntries(dir.entries)]

\* findSessionFiles(): the files it returns.
findSessionFiles(dir) ==
  IF ~dir.exists THEN [threw |-> FALSE, error |-> "", files |-> <<>>]
  ELSE [threw |-> FALSE, error |-> "", files |-> findInEntries(dir.entries)]

\* The file a path names.
fileAt(dir, path) ==
  LET entry == dir.entries[CHOOSE i \in 1..Len(dir.entries) :
                             dir.entries[i].name = path[1]]
  IN  entry.files[CHOOSE j \in 1..Len(entry.files) : entry.files[j].name = path[2]]

ReadError == [threw |-> TRUE, error |-> "EACCES", sessions |-> <<>>]
NullError == [threw |-> TRUE, error |-> "TypeError", sessions |-> <<>>]

\* The filter is not applied.
yearDiffersNever(event, filter, offset) == FALSE

\* The first event's year differs from the filter (NaN differs from any).
yearDiffers(event, filter, offset) ==
  event.timestamp = NoTime \/ getFullYear(event.timestamp, offset) # filter

\* One pass of for (const file of sessionFiles): fs.readFileSync throws on a
\* file that cannot be read, and nothing catches it.
parseOneSession(acc, dir, file, filter, offset) ==
  IF acc.threw THEN acc
  ELSE IF ~fileAt(dir, file.path).readable THEN ReadError
  ELSE LET evs == parseSessionFile(fileAt(dir, file.path).lines)
       IN  IF Len(evs) = 0 THEN acc
           ELSE IF evs[1].isNull THEN NullError
           ELSE IF filter # 0 /\ yearDiffers(evs[1], filter, offset) THEN acc
           ELSE LET o == analyzeSession(evs)
                IN  IF o.threw THEN NullError
                    ELSE [ acc EXCEPT !.sessions =
                             Append(@, [file |-> file.path]
                                       @@ [o.stats EXCEPT !.project = file.project]) ]

RECURSIVE parseEach(_, _, _, _, _)
parseEach(acc, dir, files, filter, offset) ==
  IF files = <<>> THEN acc
  ELSE parseEach(parseOneSession(acc, dir, Head(files), filter, offset),
                 dir, Tail(files), filter, offset)

\* parseAllSessions(yearFilter): the sessions, or the error it dies of.
parseAllSessions(dir, filter, offset) ==
  LET sessionFiles == findSessionFiles(dir)
  IN  IF sessionFiles.threw
        THEN [threw |-> TRUE, error |-> sessionFiles.error, sessions |-> <<>>]
        ELSE parseEach([threw |-> FALSE, error |-> "", sessions |-> <<>>],
                       dir, sessionFiles.files, filter, offset)

-----------------------------------------------------------------------------
(* SpecRead: the read side of both pipelines *)

MaxFiles == 2

OldEvent ==
  [ LoggedEvent EXCEPT !.type = "user",
                       !.timestamp = [date |-> <<2023, 6, 1>>, sec |-> 3600] ]

\* 2024 in UTC and east of it, still 2023 west of it.
NewYearEvent ==
  [ LoggedEvent EXCEPT !.type = "user",
                       !.timestamp = [date |-> <<2024, 1, 1>>, sec |-> 7200] ]

JsonLine(e) == [kind |-> "json", value |-> e]
GarbageLine == [kind |-> "garbage", value |-> <<>>]

\* The contents of the session files.
SessionFileContents ==
  { <<JsonLine(UserEvent), JsonLine(AssistantEvent)>>,
    <<JsonLine(OldEvent), JsonLine(AssistantEvent)>>,
    <<GarbageLine, JsonLine(NewYearEvent)>>,
    <<GarbageLine>>,
    <<JsonLine(BareEvent), JsonLine(UserEvent)>>,
    <<JsonLine(UserEvent), JsonLine(NullEvent), JsonLine(ResultEvent)>> }

SessionFileName == [base |-> "7f3a", ext |-> "jsonl"]

\* What an entry of the projects directory can be, its name aside: a
\* project directory with a session file, readable or not, a project
\* directory with another file, or a plain file.
EntryShapes ==
  { [isDirectory |-> TRUE,
     files |-> << [name |-> SessionFileName, readable |-> TRUE, lines |-> c] >>] :
      c \in SessionFileContents }
  \cup
  { [isDirectory |-> TRUE,
     files |-> << [name |-> SessionFileName, readable |-> FALSE,
                   lines |-> <<JsonLine(UserEvent), JsonLine(AssistantEvent)>>] >>],
    [isDirectory |-> TRUE,
     files |-> << [name |-> [base |-> "notes", ext |-> "txt"], readable |-> FALSE,
                   lines |-> <<GarbageLine>>] >>],
    [isDirectory |-> FALSE, files |-> <<>>] }

DirNames == <<"-home-u-web", "-home-u-api", "-srv-my-app", "-tmp-x">>

\* A directory listing: the entries named in listing order.
DirOf(shapes) ==
  [ exists |-> TRUE,
    entries |-> [i \in 1..Len(shapes) |-> [name |-> DirNames[i]] @@ shapes[i]] ]

ProjectsDirs == {NoDir} \cup {DirOf(sh) : sh \in SeqsUpTo(EntryShapes, MaxFiles)}

StoredSession ==
  [ id |-> <<"session", 0, "k3x9a">>,
    timestamp |-> [date |-> <<2024, 1, 2>>, sec |-> 43200],
    date |-> <<2024, 1, 2>>, messageCount |-> 2, linesAdded |-> 0,
    linesRemoved |-> 1, filesModified |-> <<"a.js">>, filesCreated |-> <<>>,
    toolCalls |-> <<"Edit">>, languages |-> <<"JavaScript">>, project |-> "api" ]

InitRead ==
  /\ IdleAgg
  /\ IdleDerived
  /\ IdleParse
  /\ IdleOut
  /\ store \in { [exists |-> FALSE, sessions |-> <<>>],
                 [exists |-> TRUE, sessions |-> <<StoredSession>>] }
  /\ recorded = <<>>
  /\ wrapped = <<>>
  /\ lastCall = NoCall
  /\ projectsDir \in ProjectsDirs
  /\ yearFilter \in {0} \cup Years
  /\ found = <<>>
  /\ parsedAll = <<>>
  /\ loaded = <<>>
  /\ now = NoTime
  /\ tz \in TZOffsets

FindSessionFiles ==
  /\ found = <<>>
  /\ found' = <<findSessionFiles(projectsDir)>>
  /\ UNCHANGED <<projectsDir, yearFilter, parsedAll, loaded,
                 aggVars, derVars, recVars, parseVars, outVars, envVars>>

ParseAllSessions ==
  /\ parsedAll = <<>>
  /\ parsedAll' = <<parseAllSessions(projectsDir, yearFilter, tz)>>
  /\ UNCHANGED <<projectsDir, yearFilter, found, loaded,
                 aggVars, derVars, recVars, parseVars, outVars, envVars>>

LoadSessions ==
  /\ loaded = <<>>
  /\ loaded' = <<DataCollector_loadSessions(store, ioFault)>>
  /\ UNCHANGED <<projectsDir, yearFilter, found, parsedAll,
                 aggVars, derVars, recVars, parseVars, outVars, envVars>>

NextRead == FindSessionFiles \/ ParseAllSessions \/ LoadSessions

SpecRead == InitRead /\ [][NextRead]_vars

-----------------------------------------------------------------------------
(* Claims about the read side *)

\* The session files of the directory, in listing order.
SessionFilesIn(dir) ==
  LET dirs == SelectSeq(dir.entries, LAMBDA e : e.isDirectory /\ e.files # <<>>
                                               /\ e.files[1].name.ext = "jsonl")
  IN  [i \in 1..Len(dirs) |->
         [path |-> <<dirs[i].name, dirs[i].files[1].name>>,
          readable |-> dirs[i].files[1].readable,
          evs |-> ValuesOf(dirs[i].files[1].lines)]]

\* Every session file can be read and holds event objects only.
SoundDir(dir) ==
  \A i \in 1..Len(SessionFilesIn(dir)) :
    SessionFilesIn(dir)[i].readable /\ EventObjects(SessionFilesIn(dir)[i].evs)

\* The file has a parsed event, and the first one is of the filter's year.
Matches(f, filter, offset) ==
  /\ f.evs # <<>>
  /\ f.evs[1].timestamp # NoTime
  /\ getFullYear(f.evs[1].timestamp, offset) = filter

\* The result holds, in listing order, one session for each of the files fs,
\* made of all the events of its file.
ReturnsExactly(result, fs) ==
  /\ Len(result) = Len(fs)
  /\ \A i \in 1..Len(fs) :
       /\ result[i].file = fs[i].path
       /\ result[i].messageCount
            = Cardinality({k \in 1..Len(fs[i].evs) : IsMessage(fs[i].evs[k])})
       /\ result[i].toolCalls = ToolNames(fs[i].evs)
       /\ result[i].endTime = fs[i].evs[Len(fs[i].evs)].timestamp

ParsedAll == parsedAll # <<>>

\* C14: with a year filter, parseAllSessions returns exactly the sessions of
\* the files that have a parsed event and whose first event's timestamp is
\* of that year; each of them is made of all the events of its file, and a
\* file that does not match adds nothing.
C14_YearFilter ==
  (ParsedAll /\ yearFilter # 0 /\ SoundDir(projectsDir)) =>
    /\ ~parsedAll[1].threw
    /\ ReturnsExactly(parsedAll[1].sessions,
                      SelectSeq(SessionFilesIn(projectsDir),
                                LAMBDA f : Matches(f, yearFilter, tz)))

\* C14 witness: under the filter 2023, a file whose first event is of 2023
\* and whose last is of 2024 is returned whole, and a file of 2024 beside
\* it is left out.
C14_Witness ==
  /\ ParsedAll
  /\ yearFilter = 2023
  /\ SoundDir(projectsDir)
  /\ Len(SessionFilesIn(projectsDir)) = 2
  /\ Len(parsedAll[1].sessions) = 1
  /\ parsedAll[1].sessions[1].startTime.date[1] = 2023
  /\ parsedAll[1].sessions[1].endTime.date[1] = 2024
  /\ parsedAll[1].sessions[1].messageCount = 2

\* Exactly one session file cannot be read; the others hold event objects.
OneUnreadable(dir) ==
  /\ Cardinality({i \in 1..Len(SessionFilesIn(dir)) :
                    ~SessionFilesIn(dir)[i].readable}) = 1
  /\ \A i \in 1..Len(SessionFilesIn(dir)) : EventObjects(SessionFilesIn(dir)[i].evs)

\* C15: when one session file cannot be read, parseAllSessions still
\* returns, with the sessions of the readable files.
C15_UnreadableSkipped ==
  (ParsedAll /\ yearFilter = 0 /\ OneUnreadable(projectsDir)) =>
    /\ ~parsedAll[1].threw
    /\ ReturnsExactly(parsedAll[1].sessions,
                      SelectSeq(SessionFilesIn(projectsDir),
                                LAMBDA f : f.readable /\ f.evs # <<>>))

\* C16: with the projects directory absent findSessionFiles returns the
\* empty list without an error, and so does parseAllSessions; with the
\* sessions file absent loadSessions returns the empty list.
C16_AbsentStorage ==
  /\ (found # <<>> /\ ~projectsDir.exists) =>
       ~found[1].threw /\ found[1].files = <<>>
  /\ (ParsedAll /\ ~projectsDir.exists) =>
       ~parsedAll[1].threw /\ parsedAll[1].sessions = <<>>
  /\ (loaded # <<>> /\ ~store.exists) => loaded[1] = <<>>

\* C16 witness: all three have been called on absent storage.
C16_Witness ==
  /\ ~projectsDir.exists
  /\ ~store.exists
  /\ found # <<>>
  /\ ParsedAll
  /\ loaded # <<>>

-----------------------------------------------------------------------------
(* SpecStore: recordSession on a file system whose operations can fail *)

IoFaults == SUBSET {"read", "write"}

\* Reads or writes of the sessions file start or stop failing.
IoFaultChanges ==
  /\ \E f \in IoFaults : f # ioFault /\ ioFault' = f
  /\ UNCHANGED <<outputFiles, report, aggVars, derVars, recVars, parseVars,
                 readVars, envVars>>

NextStore == RecordSession \/ IoFaultChanges

SpecStore == Init /\ [][NextStore]_vars

\* C17: a call of recordSession leaves in the store every record that was
\* there, unchanged and in the same order, followed by the new record.
C17_AppendOnly ==
  [][Len(recorded') = Len(recorded) + 1 =>
       /\ store'.exists
       /\ Len(store'.sessions) = Len(store.sessions) + 1
       /\ SubSeq(store'.sessions, 1, Len(store.sessions)) = store.sessions
       /\ LET new == store'.sessions[Len(store'.sessions)]
              s   == recorded'[Len(recorded')]
          IN  /\ new.messageCount = s.messageCount
              /\ new.filesModified = s.filesModified
              /\ new.toolCalls = s.toolCalls]_vars

-----------------------------------------------------------------------------
(* getInsights of both pipelines *)

\* An insight {type, title, description} is [type, title, value]: value is the
\* number the description interpolates, 0 when it interpolates none. Titles
\* are written without their emoji.
Insight(type, title, value) == [type |-> type, title |-> title, value |-> value]

\* Rules are chained with else: a rule fires only when none fired before it.
pushIfFirst(cond, arr, insight) ==
  IF cond /\ arr = <<>> THEN Append(arr, insight) ELSE arr

\* if (cond) { insights.push(insight); }
pushIf(cond, arr, insight) == IF cond THEN Append(arr, insight) ELSE arr

\* (stats.hourlyActivity[a] || 0) + (stats.hourlyActivity[b] || 0)
hoursAt(st, a, b) == Get(st.hourlyActivity, a) + Get(st.hourlyActivity, b)

\* RealWrappedGenerator.getInsights(stats)
Real_getInsights(st) ==
  LET toolCount == Len(Keys(st.toolUsage))
      i1 == pushIf(st.totalSessions > 50, <<>>,
                   Insight("achievement", "Power User", st.totalSessions))
      i2 == pushIf(st.totalMessages > 100, i1,
                   Insight("achievement", "Conversationalist", st.totalMessages))
      i3 == pushIf(st.totalFilesModified > 50, i2,
                   Insight("achievement", "File Wizard", st.totalFilesModified))
      i4 == pushIf(st.totalDuration > 60, i3,
                   Insight("achievement", "Time Master", st.totalDuration \div 60))
      i5 == pushIf(st.longestStreak >= 3, i4,
                   Insight("achievement", "On Fire", st.longestStreak))
      i6 == pushIf(hoursAt(st, 23, 0) > 5, i5, Insight("badge", "Night Owl", 0))
      i7 == pushIf(hoursAt(st, 6, 7) > 5, i6, Insight("badge", "Early Bird", 0))
      i8 == pushIf(toolCount > 5, i7,
                   Insight("achievement", "Tool Master", toolCount))
  IN  pushIf(st.totalThinkingBlocks > 20, i8,
             Insight("achievement", "Deep Thinker", st.totalThinkingBlocks))

\* WrappedData.getInsights()
WrappedData_getInsights(st) ==
  LET totalLines == st.totalLinesAdded + st.totalLinesRemoved
      toolCount == Len(Keys(st.toolUsage))
      i1 == pushIf(totalLines > 10000, <<>>,
                   Insight("achievement", "Code Maestro", totalLines))
      i2 == pushIf(st.totalSessions > 100, i1,
                   Insight("achievement", "Power User", st.totalSessions))
      i3 == pushIf(st.longestStreak >= 7, i2,
                   Insight("achievement", "On Fire", st.longestStreak))
      i4 == pushIf(hoursAt(st, 23, 0) > 10, i3, Insight("badge", "Night Owl", 0))
      i5 == pushIf(hoursAt(st, 6, 7) > 10, i4, Insight("badge", "Early Bird", 0))
  IN  pushIf(toolCount > 10, i5,
             Insight("achievement", "Tool Master", toolCount))

\* The titles of the rules, in the order the code declares them.
RealRules ==
  << "Power User", "Conversationalist", "File Wizard", "Time Master", "On Fire",
     "Night Owl", "Early Bird", "Tool Master", "Deep Thinker" >>
WrappedRules ==
  << "Code Maestro", "Power User", "On Fire", "Night Owl", "Early Bird",
     "Tool Master" >>

-----------------------------------------------------------------------------
(* Report generation: WrappedGenerator and RealWrappedGenerator *)

\* A call ends as [kind, error, year, wrapped, data, filename, written]: kind
\* is "returned", "threw" or "exit" (process.exit(1)); year is the year the
\* error message names; wrapped is <<>> or <<the object returned>>; data is
\* <<>> or <<the report: year, stats and insights>>; written are the files
\* the call wrote.

NoDataError == "No data found for year"
NoSessionsError == "No Claude Code sessions found for"

\* path.join(outputPath, `wrapped_${year}.json`) and ...html
ReportFile(year, ext) == [name |-> "wrapped", year |-> year, ext |-> ext]

\* The write error is caught and the call goes on.
writeFileSyncSwallowed(f, fault) == ""

\* fs.writeFileSync(filename, ...): the error it throws, "" when it wrote.
writeFileSync(f, fault) ==
  IF "write" \in fault \/ (f.ext = "html" /\ "writeHtml" \in fault)
    THEN "EACCES" ELSE ""

Threw(error, year, written) ==
  [ kind |-> "threw", error |-> error, year |-> year, wrapped |-> <<>>,
    data |-> <<>>, filename |-> NoFile, written |-> written ]

Returned(w, data, filename, written) ==
  [ kind |-> "returned", error |-> "", year |-> 0, wrapped |-> <<w>>,
    data |-> data, filename |-> filename, written |-> written ]

\* WrappedData.toJSON(), without generatedAt.
WrappedData_toJSON(w) ==
  [ year |-> w.year, stats |-> w.stats,
    insights |-> WrappedData_getInsights(w.stats) ]

\* WrappedGenerator.generate()
WrappedGenerator_generateCall(file, year, t, offset, fault) ==
  LET ss == DataCollector_getSessionsByYear(file, year, offset, fault)
  IN  IF Len(ss) = 0 THEN Threw(NoDataError, year, {})
      ELSE Returned(WrappedGenerator_generate(ss, year, t, offset), <<>>, NoFile, {})

\* WrappedGenerator.generateAndSave()
WrappedGenerator_generateAndSave(file, year, t, offset, fault) ==
  LET g == WrappedGenerator_generateCall(file, year, t, offset, fault)
      data == WrappedData_toJSON(g.wrapped[1])
      filename == ReportFile(year, "json")
  IN  IF g.kind = "threw" THEN g
      ELSE IF writeFileSync(filename, fault) # ""
             THEN Threw(writeFileSync(filename, fault), 0, {})
      ELSE Returned(g.wrapped[1], <<data>>, filename, {filename})

\* WrappedGenerator.generateHTML()
WrappedGenerator_generateHTML(file, year, t, offset, fault) ==
  LET g == WrappedGenerator_generateAndSave(file, year, t, offset, fault)
      data == WrappedData_toJSON(g.wrapped[1])
      htmlFile == ReportFile(year, "html")
  IN  IF g.kind = "threw" THEN g
      ELSE IF writeFileSync(htmlFile, fault) # ""
             THEN Threw(writeFileSync(htmlFile, fault), 0, g.written)
      ELSE Returned(g.wrapped[1], <<data>>, htmlFile, g.written \cup {htmlFile})

\* The derived stats are left as the literal has them.
Real_toWrappedFormatUnderived(a, year, t) ==
  [ year |-> year, stats |-> Real_toWrappedStats(a) ]

\* RealWrappedGenerator.toWrappedFormat(aggregated)
Real_toWrappedFormat(a, year, t) ==
  [ year |-> year,
    stats |-> Real_calculateDerivedStats(Real_toWrappedStats(a), t) ]

\* RealWrappedGenerator.generate(): with no session it logs the year and
\* calls process.exit(1).
Real_generate(dir, year, t, offset) ==
  LET p == parseAllSessions(dir, year, offset)
      w == Real_toWrappedFormat(aggregateStats(p.sessions, offset), year, t)
      withInsights == w @@ [insights |-> Real_getInsights(w.stats)]
  IN  IF p.threw THEN Threw(p.error, 0, {})
      ELSE IF Len(p.sessions) = 0
             THEN [ kind |-> "exit", error |-> NoSessionsError, year |-> year,
                    wrapped |-> <<>>, data |-> <<>>, filename |-> NoFile,
                    written |-> {} ]
      ELSE Returned(withInsights, <<withInsights>>, NoFile, {})

\* main() of realWrapped.js: generate(), displayTerminal(), generateHTML().
Real_main(dir, year, t, offset, fault) ==
  LET g == Real_generate(dir, year, t, offset)
      htmlFile == ReportFile(year, "html")
  IN  IF g.kind # "returned" THEN g
      ELSE IF writeFileSync(htmlFile, fault) # ""
             THEN Threw(writeFileSync(htmlFile, fault), 0, {})
      ELSE Returned(g.wrapped[1], g.data, htmlFile, {htmlFile})

-----------------------------------------------------------------------------
(* SpecReport: the report calls of both pipelines *)

ReportFaults == { {}, {"write"}, {"writeHtml"} }

SessionDir(lines) ==
  [ isDirectory |-> TRUE,
    files |-> << [name |-> SessionFileName, readable |-> TRUE, lines |-> lines] >> ]

\* A session of three events on a day of March 2024.
SessionOn(d) ==
  SessionDir(<< JsonLine([UserEvent EXCEPT !.timestamp.date = <<2024, 3, d>>]),
                JsonLine([AssistantEvent EXCEPT !.timestamp.date = <<2024, 3, d>>]),
                JsonLine([ToolsEvent EXCEPT !.timestamp.date = <<2024, 3, d>>]) >>)

\* sessions.json with a session on each of seven days in a row.
StreakStore ==
  [ exists |-> TRUE,
    sessions |-> [ i \in 1..7 |->
                     [ StoredSession EXCEPT
                         !.id = <<"session", i, "k3x9a">>,
                         !.timestamp = [date |-> <<2024, 3, i>>, sec |-> 43200],
                         !.date = <<2024, 3, i>> ] ] ]

\* No directory, sessions of 2024, of 2023 and 2024, of the new year, and
\* of three days in a row.
ReportDirs ==
  { NoDir,
    DirOf(<< SessionOn(5), SessionOn(6), SessionOn(7) >>),
    DirOf(<< SessionDir(<<JsonLine(UserEvent), JsonLine(AssistantEvent)>>) >>),
    DirOf(<< SessionDir(<<JsonLine(OldEvent), JsonLine(AssistantEvent)>>),
             SessionDir(<<JsonLine(UserEvent), JsonLine(ResultEvent)>>) >>),
    DirOf(<< SessionDir(<<GarbageLine, JsonLine(NewYearEvent)>>) >>) }

InitReport ==
  /\ IdleAgg
  /\ IdleDerived
  /\ IdleParse
  /\ store \in { [exists |-> FALSE, sessions |-> <<>>],
                 [exists |-> TRUE, sessions |-> <<StoredSession>>],
                 StreakStore }
  /\ recorded = <<>>
  /\ wrapped = <<>>
  /\ lastCall = NoCall
  /\ projectsDir \in ReportDirs
  /\ yearFilter = 0
  /\ found = <<>>
  /\ parsedAll = <<>>
  /\ loaded = <<>>
  /\ ioFault \in ReportFaults
  /\ outputFiles = {}
  /\ report = NoReport
  /\ now = [date |-> <<2024, 1, 2>>, sec |-> 50400]
  /\ tz \in TZOffsets

\* The state after a report call that ended as o.
Ends(op, year, o) ==
  /\ report' = [ op |-> op, requested |-> year, kind |-> o.kind, error |-> o.error,
                 year |-> o.year, data |-> o.data, filename |-> o.filename,
                 written |-> o.written ]
  /\ wrapped' = o.wrapped
  /\ outputFiles' = outputFiles \cup o.written
  /\ UNCHANGED <<ioFault, store, recorded, lastCall, aggVars, derVars, parseVars,
                 projectsDir, yearFilter, found, loaded, envVars>>

WrappedGenerate ==
  \E year \in Years :
    /\ UNCHANGED parsedAll
    /\ Ends("WrappedGenerator.generate", year,
         WrappedGenerator_generateCall(store, year, now, tz, ioFault))

WrappedGenerateAndSave ==
  \E year \in Years :
    /\ UNCHANGED parsedAll
    /\ Ends("WrappedGenerator.generateAndSave", year,
         WrappedGenerator_generateAndSave(store, year, now, tz, ioFault))

WrappedGenerateHTML ==
  \E year \in Years :
    /\ UNCHANGED parsedAll
    /\ Ends("WrappedGenerator.generateHTML", year,
         WrappedGenerator_generateHTML(store, year, now, tz, ioFault))

\* The sessions generate() got from parseAllSessions are kept in parsedAll.
RealGenerate ==
  \E year \in Years :
    /\ parsedAll' = <<parseAllSessions(projectsDir, year, tz)>>
    /\ Ends("RealWrappedGenerator.generate", year,
            Real_generate(projectsDir, year, now, tz))

RealMain ==
  \E year \in Years :
    /\ parsedAll' = <<parseAllSessions(projectsDir, year, tz)>>
    /\ Ends("realWrapped.main", year, Real_main(projectsDir, year, now, tz, ioFault))

NextReport ==
  \/ WrappedGenerate
  \/ WrappedGenerateAndSave
  \/ WrappedGenerateHTML
  \/ RealGenerate
  \/ RealMain

SpecReport == InitReport /\ [][NextReport]_vars

-----------------------------------------------------------------------------
(* Claims about report generation *)

RecordedOps ==
  { "WrappedGenerator.generate", "WrappedGenerator.generateAndSave",
    "WrappedGenerator.generateHTML" }
RealOps == { "RealWrappedGenerator.generate", "realWrapped.main" }

\* The pipeline of the last call has no session of the requested year.
NoSessionFor(op, year) ==
  IF op \in RecordedOps
    THEN \A i \in 1..Len(store.sessions) :
           getFullYear(store.sessions[i].timestamp, tz) # year
    ELSE \A i \in 1..Len(SessionFilesIn(projectsDir)) :
           ~Matches(SessionFilesIn(projectsDir)[i], year, tz)

\* C18: when the pipeline has no session of the requested year, the
\* generating call ends by throwing to its caller an error that names that
\* year; it returns no report object and writes no file.  In both pipelines.
C18_NoDataFailure ==
  (report.op \in RecordedOps \cup RealOps /\ NoSessionFor(report.op, report.requested)) =>
    /\ report.kind = "threw"
    /\ report.year = report.requested
    /\ wrapped = <<>>
    /\ report.filename = NoFile
    /\ report.written = {}

\* The same, of WrappedGenerator alone.
C18_RecordedNoDataFailure ==
  (report.op \in RecordedOps /\ NoSessionFor(report.op, report.requested)) =>
    /\ report.kind = "threw"
    /\ report.error = NoDataError
    /\ report.year = report.requested
    /\ wrapped = <<>>
    /\ report.written = {}

\* A write the last call makes fails.
WriteFails(op) ==
  \/ "write" \in ioFault /\ op \in RecordedOps \cup RealOps
                         /\ op \notin {"WrappedGenerator.generate",
                                       "RealWrappedGenerator.generate"}
  \/ "writeHtml" \in ioFault /\ op \in {"WrappedGenerator.generateHTML",
                                        "realWrapped.main"}

\* C19: when the pipeline has sessions of the year and a write of the
\* report fails, generateAndSave and generateHTML (of either pipeline) throw
\* to the caller an error that is not the no-data error, and no file name
\* is returned.
C19_WriteFailurePropagates ==
  (WriteFails(report.op) /\ ~NoSessionFor(report.op, report.requested)) =>
    /\ report.kind = "threw"
    /\ report.error \notin {NoDataError, NoSessionsError}
    /\ report.year = 0
    /\ report.filename = NoFile

\* C19 witness: generateHTML has written the .json file and failed on the
\* .html file.
C19_Witness ==
  /\ "writeHtml" \in ioFault
  /\ report.op = "WrappedGenerator.generateHTML"
  /\ ~NoSessionFor(report.op, report.requested)
  /\ report.kind = "threw"
  /\ report.error = "EACCES"
  /\ report.written = {ReportFile(2024, "json")}

-----------------------------------------------------------------------------
(* Claims about the best-bucket fields *)

\* The first entry, in iteration order, whose count is the largest.
FirstMax(m) ==
  m[CHOOSE i \in 1..Len(m) :
      /\ \A j \in 1..Len(m) : m[j][2] <= m[i][2]
      /\ \A j \in 1..(i - 1) : m[j][2] < m[i][2]]

\* The field is null exactly when the mapping is empty, and else holds the
\* first entry with the largest count.
BestOk(m, field) ==
  /\ field = <<>> <=> m = <<>>
  /\ m # <<>> => field = <<FirstMax(m)>>

\* st.name, null when the object has no such property.
FieldOrNull(st, name) == IF name \in DOMAIN st THEN st[name] ELSE <<>>

BestBucketsOk(st) ==
  /\ BestOk(st.dailyActivity, FieldOrNull(st, "mostProductiveDay"))
  /\ BestOk(st.hourlyActivity, FieldOrNull(st, "mostProductiveHour"))
  /\ BestOk(st.languageStats, FieldOrNull(st, "favoriteLanguage"))
  /\ BestOk(st.toolUsage, FieldOrNull(st, "mostUsedTool"))

\* C20: after calculateDerivedStats, in both pipelines, each of
\* mostProductiveDay, mostProductiveHour, favoriteLanguage and mostUsedTool
\* is null exactly when its mapping is empty, and otherwise names the first
\* key, in the mapping's iteration order, of the largest count.
C20_BestBuckets ==
  /\ RealDone => BestBucketsOk(stats)
  /\ WrappedDone => BestBucketsOk(wstats)

\* The same, of RealWrappedGenerator alone.
C20_RealBestBuckets == RealDone => BestBucketsOk(stats)

-----------------------------------------------------------------------------
(* SpecInsights: getInsights on stats around the thresholds of the rules *)

ToolPool ==
  << "Read", "Write", "Edit", "Bash", "Grep", "Glob", "Task", "WebFetch",
     "WebSearch", "TodoWrite", "NotebookEdit" >>

\* toolUsage of n tools used once each.
ToolsUsed(n) == [i \in 1..n |-> <<ToolPool[i], 1>>]

\* hourlyActivity with these counts at 0, 6, 7 and 23 o'clock; an hour that
\* was never seen has no key.
HoursOf(n0, n6, n7, n23) ==
  SelectSeq(<< <<0, n0>>, <<6, n6>>, <<7, n7>>, <<23, n23>> >>, LAMBDA e : e[2] > 0)

\* The ways n sessions fall on the two hours of a rule: <<first, second>>.
Splits(n) == { <<n, 0>>, <<n \div 2, n - (n \div 2)>> }

\* dailyActivity of k consecutive days holding total sessions.
StreakDays(k, total) ==
  [i \in 1..k |-> << <<2024, 3, i>>, IF i = 1 THEN total - (k - 1) ELSE 1 >>]

InsightNow == [date |-> <<2024, 3, 20>>, sec |-> 36000]

\* What toWrappedFormat returns as stats, on either side of each threshold.
RealInsightInputs ==
  { Real_calculateDerivedStats(
      Real_toWrappedStats(
        [ AggregatedFor(StreakDays(streak, ns[1] + ns[2] + es[1] + es[2]), <<>>) EXCEPT
            !.totalSessions = n,
            !.totalMessages = msgs,
            !.totalFilesModified = files,
            !.totalDuration = duration,
            !.totalThinkingBlocks = thinking,
            !.hourlyActivity = HoursOf(ns[2], es[1], es[2], ns[1]),
            !.toolUsage = ToolsUsed(tools) ]),
      InsightNow) :
      n \in {50, 51}, msgs \in {100, 101}, files \in {50, 51},
      duration \in {60, 61, 125}, thinking \in {20, 21}, streak \in {2, 3},
      tools \in {5, 6},
      ns \in Splits(5) \cup Splits(6), es \in Splits(5) \cup Splits(6) }

\* this.stats of a WrappedData after calculateDerivedStats, on either side of
\* each threshold.
WrappedInsightInputs ==
  { WrappedData_calculateDerivedStats(
      [ WrappedData_stats EXCEPT
          !.totalSessions = n,
          !.totalLinesAdded = added,
          !.totalLinesRemoved = 4000,
          !.totalToolCalls = tools,
          !.toolUsage = ToolsUsed(tools),
          !.dailyActivity = StreakDays(streak, n),
          !.hourlyActivity = HoursOf(ns[2], es[1], es[2], ns[1]) ],
      InsightNow) :
      n \in {99, 100, 101}, added \in {6000, 6001}, streak \in {6, 7},
      tools \in {9, 10, 11},
      ns \in Splits(10) \cup Splits(11), es \in Splits(10) \cup Splits(11) }

InitInsights ==
  /\ IdleAgg
  /\ IdleRecorded
  /\ IdleParse
  /\ IdleRead
  /\ IdleOut
  /\ now = InsightNow
  /\ tz = 0
  /\ derivedDone = {}
  /\ insights = <<>>
  /\ \/ stats \in RealInsightInputs /\ wstats = <<>>
     \/ stats = <<>> /\ wstats \in WrappedInsightInputs

RealGetInsights ==
  /\ stats # <<>>
  /\ insights = <<>>
  /\ insights' = <<Real_getInsights(stats)>>
  /\ UNCHANGED <<stats, wstats, derivedDone, aggVars, recVars, parseVars, readVars,
                 outVars, envVars>>

WrappedGetInsights ==
  /\ wstats # <<>>
  /\ insights = <<>>
  /\ insights' = <<WrappedData_getInsights(wstats)>>
  /\ UNCHANGED <<stats, wstats, derivedDone, aggVars, recVars, parseVars, readVars,
                 outVars, envVars>>

NextInsights == RealGetInsights \/ WrappedGetInsights

SpecInsights == InitInsights /\ [][NextInsights]_vars

-----------------------------------------------------------------------------
(* Claims about getInsights *)

Titles(out) == [i \in 1..Len(out) |-> out[i].title]

\* The predicate of a rule of RealWrappedGenerator.getInsights.
RealRuleHolds(r, st) ==
  CASE r = "Power User" -> st.totalSessions > 50
    [] r = "Conversationalist" -> st.totalMessages > 100
    [] r = "File Wizard" -> st.totalFilesModified > 50
    [] r = "Time Master" -> st.totalDuration > 60
    [] r = "On Fire" -> st.longestStreak >= 3
    [] r = "Night Owl" -> hoursAt(st, 23, 0) > 5
    [] r = "Early Bird" -> hoursAt(st, 6, 7) > 5
    [] r = "Tool Master" -> Cardinality(KeySet(st.toolUsage)) > 5
    [] r = "Deep Thinker" -> st.totalThinkingBlocks > 20

\* The predicate of a rule of WrappedData.getInsights.
WrappedRuleHolds(r, st) ==
  CASE r = "Code Maestro" -> st.totalLinesAdded + st.totalLinesRemoved > 10000
    [] r = "Power User" -> st.totalSessions > 100
    [] r = "On Fire" -> st.longestStreak >= 7
    [] r = "Night Owl" -> hoursAt(st, 23, 0) > 10
    [] r = "Early Bird" -> hoursAt(st, 6, 7) > 10
    [] r = "Tool Master" -> Cardinality(KeySet(st.toolUsage)) > 10

\* C21: getInsights returns exactly the insights whose rule holds on the
\* stats, each once and in the order of the rule table: the titles returned
\* are the rule table with the rules that do not hold struck out, whatever
\* the other rules did.
C21_InsightsAreTheRulesThatHold ==
  insights # <<>> =>
    /\ stats # <<>> =>
         Titles(insights[1]) = SelectSeq(RealRules, LAMBDA r : RealRuleHolds(r, stats))
    /\ wstats # <<>> =>
         Titles(insights[1]) =
           SelectSeq(WrappedRules, LAMBDA r : WrappedRuleHolds(r, wstats))

\* C21 witness: getInsights of the live-log pipeline returned On Fire and
\* Deep Thinker, in that order, although the rules declared before and
\* between them (Power User, Night Owl) did not fire.
C21_Witness ==
  /\ stats # <<>>
  /\ insights # <<>>
  /\ Titles(insights[1]) = <<"On Fire", "Deep Thinker">>

\* C23: in the recorded-sessions pipeline an achievement documented as "N+"
\* is awarded from N on: Power User whenever totalSessions >= 100, On Fire
\* whenever longestStreak >= 7 and Tool Master whenever 10 or more distinct
\* tools were used.
C23_ThresholdsInclusive ==
  (wstats # <<>> /\ insights # <<>>) =>
    LET awarded == Range(Titles(insights[1]))
    IN  /\ wstats.totalSessions >= 100 => "Power User" \in awarded
        /\ wstats.longestStreak >= 7 => "On Fire" \in awarded
        /\ Cardinality(KeySet(wstats.toolUsage)) >= 10 => "Tool Master" \in awarded

\* C23, the one threshold the code has inclusive: On Fire is awarded whenever
\* longestStreak >= 7.
C23_OnFireInclusive ==
  (wstats # <<>> /\ insights # <<>> /\ wstats.longestStreak >= 7) =>
    "On Fire" \in Range(Titles(insights[1]))

-----------------------------------------------------------------------------
(* Claims about the reports *)

\* The number of sessions of the year the pipeline of the call holds.
YearSessions(op, year) ==
  IF op \in RecordedOps
    THEN Cardinality({ i \in 1..Len(store.sessions) :
                        getFullYear(store.sessions[i].timestamp, tz) = year })
    ELSE Cardinality({ i \in 1..Len(SessionFilesIn(projectsDir)) :
                        Matches(SessionFilesIn(projectsDir)[i], year, tz) })

\* The stats have n sessions folded in and their streak computed.
FinalStats(st, n) ==
  /\ st.totalSessions = n
  /\ st.longestStreak = IF Days(st) = {} THEN 0 ELSE LongestRun(Days(st))

ReportData == report.data[1]

\* C22: the insights of every report a generate pipeline produces are the
\* insights of the report's final stats, which have all sessions of the
\* year folded in and the longest streak computed; none is evaluated on
\* partial or underived stats.
C22_InsightsOfFinalStats ==
  (report.kind = "returned" /\ report.data # <<>>) =>
    /\ FinalStats(ReportData.stats, YearSessions(report.op, report.requested))
    /\ ReportData.insights =
         IF report.op \in RecordedOps
           THEN WrappedData_getInsights(ReportData.stats)
           ELSE Real_getInsights(ReportData.stats)

\* C22 witness: the live-log pipeline returned a report of three sessions
\* on three days in a row, and On Fire, which needs the derived
\* longestStreak, is among its insights.
C22_Witness ==
  /\ report.op = "RealWrappedGenerator.generate"
  /\ report.kind = "returned"
  /\ report.data # <<>>
  /\ ReportData.stats.totalSessions = 3
  /\ "On Fire" \in Range(Titles(ReportData.insights))

-----------------------------------------------------------------------------
(* Claims about the counters of analyzeSession *)

CountOf(evs, P(_)) == Cardinality({i \in 1..Len(evs) : P(evs[i])})

\* C24: for every sequence of event objects, userMessages is the number of
\* events of type user and userType external, assistantMessages the number
\* of events of type assistant, and messageCount their sum: events of any
\* other type, or user events of another sub-type, are not counted.
C24_MessageCounts ==
  (Analyzed /\ EventObjects(parsedEvents)) =>
    /\ ~outcome.threw
    /\ outcome.stats.userMessages
         = CountOf(parsedEvents, LAMBDA e : e.type = "user" /\ e.userType = "external")
    /\ outcome.stats.assistantMessages
         = CountOf(parsedEvents, LAMBDA e : e.type = "assistant")
    /\ outcome.stats.messageCount
         = outcome.stats.userMessages + outcome.stats.assistantMessages

\* C24 witness: a session of an external user event, a user event of
\* another sub-type and a system event was analyzed, and one message was
\* counted.
C24_Witness ==
  /\ Analyzed
  /\ parsedEvents = <<UserEvent, InternalUserEvent, SystemEvent>>
  /\ ~outcome.threw
  /\ outcome.stats.messageCount = 1

\* The tool_use items of the events that carry an input, in order.
RECURSIVE InputItems(_)
InputItems(evs) ==
  IF evs = <<>> THEN <<>>
  ELSE SelectSeq(Head(evs).content,
                 LAMBDA item : item.type = "tool_use" /\ item.hasInput)
       \o InputItems(Tail(evs))

\* The file_path values carried by the items whose name is in names.
PathsCarried(evs, names) ==
  { item.file_path :
      item \in { x \in Range(InputItems(evs)) :
                   x.name \in names /\ x.file_path # NullStr } }

AllToolNames == Range(ToolNames(parsedEvents))

\* C25: filesAccessed is exactly the set of file_path values carried by
\* tool_use items, and filesModified exactly the set of those carried by
\* items named Write or Edit; a Write or Edit without file_path adds
\* nothing, and every element of filesModified is a path string.
C25_FileSets ==
  (Analyzed /\ EventObjects(parsedEvents)) =>
    /\ ~outcome.threw
    /\ Range(outcome.stats.filesAccessed) = PathsCarried(parsedEvents, AllToolNames)
    /\ Range(outcome.stats.filesModified) = PathsCarried(parsedEvents, {"Write", "Edit"})
    /\ NullStr \notin Range(outcome.stats.filesModified)

\* C25, the part the code satisfies: filesAccessed is exactly the set of
\* file_path values carried by tool_use items.
C25_FilesAccessed ==
  (Analyzed /\ EventObjects(parsedEvents)) =>
    /\ ~outcome.threw
    /\ Range(outcome.stats.filesAccessed) = PathsCarried(parsedEvents, AllToolNames)
    /\ NullStr \notin Range(outcome.stats.filesAccessed)

\* C27, within one session: the counts of toolUsage sum to the length of
\* toolCalls, which is the number of tool_use items of the events.
C27_SessionToolCalls ==
  (Analyzed /\ EventObjects(parsedEvents)) =>
    /\ ~outcome.threw
    /\ SumSeq(Values(outcome.stats.toolUsage)) = Len(outcome.stats.toolCalls)
    /\ Len(outcome.stats.toolCalls) = Len(ToolNames(parsedEvents))

\* The session files of the requested year, in listing order.
YearFiles ==
  SelectSeq(SessionFilesIn(projectsDir), LAMBDA f : Matches(f, report.requested, tz))

\* The number of tool_use items in the events of each of the files.
ToolUses(fs) == [i \in 1..Len(fs) |-> Len(ToolNames(fs[i].evs))]

\* C27: in the live-log pipeline tool calls are conserved from the events
\* to the report: in every SessionStats the counts of toolUsage sum to the
\* length of toolCalls, which is the number of tool_use items of the
\* session, and the report's totalToolCalls is the sum of those numbers over
\* the sessions of the year.
C27_ToolCallsConserved ==
  (report.op \in RealOps /\ report.kind = "returned" /\ SoundDir(projectsDir)) =>
    LET ss == parsedAll[1].sessions
    IN  /\ Len(ss) = Len(YearFiles)
        /\ \A i \in 1..Len(ss) :
             /\ SumSeq(Values(ss[i].toolUsage)) = Len(ss[i].toolCalls)
             /\ Len(ss[i].toolCalls) = ToolUses(YearFiles)[i]
        /\ ReportData.stats.totalToolCalls = SumSeq(ToolUses(YearFiles))

\* C27 witness: a report of three sessions that each used five tools, Read
\* twice, counts fifteen tool calls.
C27_Witness ==
  /\ report.op = "RealWrappedGenerator.generate"
  /\ report.kind = "returned"
  /\ Len(YearFiles) = 3
  /\ ToolUses(YearFiles) = <<5, 5, 5>>
  /\ ReportData.stats.totalToolCalls = 15
  /\ Get(ReportData.stats.toolUsage, "Read") = 6

-----------------------------------------------------------------------------
(* Claims about the activity histograms of aggregateStats *)

\* The number of sessions with a start time.
Started(ss) == Cardinality({i \in 1..Len(ss) : ss[i].startTime # NoTime})

\* C26: aggregateStats counts every session with a start time once in
\* dailyActivity and once in hourlyActivity, and a session without one in
\* neither: the counts of each histogram sum to the number of sessions with
\* a start time, and every key of hourlyActivity is an hour in 0..23.
C26_ActivityCounts ==
  aggregated # <<>> =>
    /\ SumSeq(Values(aggregated[1].dailyActivity)) = Started(sessions)
    /\ SumSeq(Values(aggregated[1].hourlyActivity)) = Started(sessions)
    /\ KeySet(aggregated[1].hourlyActivity) \subseteq 0..23

\* C26 witness: three sessions were aggregated, one without a start time and
\* two that started on the same day at 23:30 UTC, which is the next day in
\* the process's time zone.
C26_Witness ==
  /\ aggregated # <<>>
  /\ tz = 9
  /\ Len(sessions) = 3
  /\ Started(sessions) = 2
  /\ aggregated[1].dailyActivity = << << <<2024, 1, 31>>, 2 >> >>
  /\ aggregated[1].hourlyActivity = << <<8, 2>> >>

-----------------------------------------------------------------------------
(* Claims relating the two derived-stats calculators *)

SharedFields ==
  { "mostProductiveDay", "mostProductiveHour", "favoriteLanguage", "topProjects",
    "longestStreak", "currentStreak" }

\* C29: run on the same dailyActivity, hourlyActivity, languageStats and
\* projectStats at the same time, the two calculateDerivedStats leave the
\* same mostProductiveDay, mostProductiveHour, favoriteLanguage,
\* topProjects, longestStreak and currentStreak.
C29_CalculatorsAgree ==
  (RealDone /\ WrappedDone) => \A f \in SharedFields : stats[f] = wstats[f]

\* C29, without currentStreak: the two calculators agree on the other five
\* shared fields.
C29_AgreeButCurrentStreak ==
  (RealDone /\ WrappedDone) =>
    \A f \in SharedFields \ {"currentStreak"} : stats[f] = wstats[f]

-----------------------------------------------------------------------------
(* SpecWrapped: addSession and calculateDerivedStats on one WrappedData *)

MaxAdded == 3
MaxCalcs == 2

\* Sessions of the first and the second of January, two on the second, and a
\* session without date, timestamp, project or language.
WrappedSessions ==
  { [ StoredSession EXCEPT
        !.timestamp = [date |-> <<2024, 1, 1>>, sec |-> 43200],
        !.date = <<2024, 1, 1>> ],
    [ StoredSession EXCEPT
        !.timestamp = [date |-> <<2024, 1, 2>>, sec |-> 3600],
        !.date = <<2024, 1, 2>>, !.project = "web", !.languages = <<"Python">> ],
    StoredSession,
    [ StoredSession EXCEPT
        !.timestamp = NoTime, !.date = NoDate, !.project = NullStr,
        !.languages = <<>> ] }

\* The second of January, and four days later.
WrappedNows ==
  { [date |-> <<2024, 1, 2>>, sec |-> 50400],
    [date |-> <<2024, 1, 6>>, sec |-> 50400] }

\* lastCall is [op, year, error, calcs] here: calcs counts the
\* calculateDerivedStats calls made so far.
InitWrapped ==
  /\ IdleAgg
  /\ IdleDerived
  /\ IdleParse
  /\ IdleRead
  /\ IdleOut
  /\ store = [exists |-> FALSE, sessions |-> <<>>]
  /\ recorded = <<>>
  /\ wrapped = <<WrappedData_new(2024)>>
  /\ lastCall = NoCall @@ [calcs |-> 0]
  /\ now = [date |-> <<2024, 1, 2>>, sec |-> 50400]
  /\ tz \in TZOffsets

\* Time passes.
Later ==
  /\ \E t \in WrappedNows : timeOf(t) > timeOf(now) /\ now' = t
  /\ UNCHANGED <<aggVars, derVars, recVars, parseVars, readVars, outVars, tz>>

AddSession ==
  /\ Len(wrapped[1].sessions) < MaxAdded
  /\ \E session \in WrappedSessions :
       wrapped' = <<WrappedData_addSession(wrapped[1], session, tz)>>
  /\ lastCall' = [lastCall EXCEPT !.op = "addSession"]
  /\ UNCHANGED <<store, recorded, aggVars, derVars, parseVars, readVars, outVars,
                 envVars>>

CalculateDerivedStats ==
  /\ lastCall.calcs < MaxCalcs
  /\ wrapped' = << [ wrapped[1] EXCEPT
                       !.stats = WrappedData_calculateDerivedStats(@, now) ] >>
  /\ lastCall' = [lastCall EXCEPT !.op = "calculateDerivedStats", !.calcs = @ + 1]
  /\ UNCHANGED <<store, recorded, aggVars, derVars, parseVars, readVars, outVars,
                 envVars>>

NextWrapped == Later \/ AddSession \/ CalculateDerivedStats

SpecWrapped == InitWrapped /\ [][NextWrapped]_vars

-----------------------------------------------------------------------------
(* Claims about WrappedData under interleaved calls *)

\* The stats of a fresh WrappedData to which the sessions of w were added and
\* whose derived stats were calculated once, at time t.
FreshStats(w, t) ==
  WrappedData_calculateDerivedStats(
    addSessions(WrappedData_new(w.year), w.sessions, tz).stats, t)

\* C28: whatever addSession and calculateDerivedStats calls came before, a
\* calculateDerivedStats call leaves the derived fields that adding the same
\* sessions to a fresh WrappedData and calculating once, at the same time,
\* gives; a second call in a row changes nothing and no earlier derived
\* value survives.
C28_DerivedAsFresh ==
  [][ (now' = now /\ lastCall'.op = "calculateDerivedStats") =>
        \A f \in SharedFields :
          wrapped'[1].stats[f] = FreshStats(wrapped'[1], now')[f] ]_vars

\* C28 witness: calculateDerivedStats has run for the second time, four days
\* after the last session, on a WrappedData of two sessions on two days in a
\* row: the longest streak is 2 and the current streak is the initial one.
C28_Witness ==
  /\ lastCall.op = "calculateDerivedStats"
  /\ lastCall.calcs = 2
  /\ now.date = <<2024, 1, 6>>
  /\ Len(wrapped[1].sessions) = 2
  /\ wrapped[1].stats.longestStreak = 2
  /\ wrapped[1].stats.currentStreak = 1

\* C30: after any sequence of addSession calls totalSessions is the length
\* of sessions, and the counts of projectStats, of dailyActivity and of
\* hourlyActivity each sum to no more than totalSessions.
C30_SessionCounts ==
  wrapped # <<>> =>
    LET w == wrapped[1]
    IN  /\ w.stats.totalSessions = Len(w.sessions)
        /\ SumSeq(Values(w.stats.projectStats)) <= w.stats.totalSessions
        /\ SumSeq(Values(w.stats.dailyActivity)) <= w.stats.totalSessions
        /\ SumSeq(Values(w.stats.hourlyActivity)) <= w.stats.totalSessions

\* C30 witness: three sessions were added, one of them without project,
\* date and timestamp; each histogram counts two.
C30_Witness ==
  /\ wrapped # <<>>
  /\ wrapped[1].stats.totalSessions = 3
  /\ Len(wrapped[1].sessions) = 3
  /\ SumSeq(Values(wrapped[1].stats.projectStats)) = 2
  /\ SumSeq(Values(wrapped[1].stats.dailyActivity)) = 2
  /\ SumSeq(Values(wrapped[1].stats.hourlyActivity)) = 2

====
